---- MODULE Spec2Model ----
(***************************************************************************)
(* Order lifecycle of the Hood Shop backend: order creation                *)
(* (POST /api/orders), the administrative status transition and notes      *)
(* update (PATCH /api/admin/orders/:orderId/status, .../notes), the public *)
(* tracking lookups (GET /track/:orderNumber, .../updates), the user's     *)
(* order reads (GET /my-orders, GET /:orderId), the socket.io rooms of the *)
(* orders, and the creation of product reviews (POST /api/reviews), over   *)
(* the tables orders, order_items, order_status_history, products, users   *)
(* and product_reviews.  Every awaited store call of a handler is one      *)
(* atomic step; the synchronous code up to the next await belongs to that  *)
(* step.                                                                   *)
(***************************************************************************)
EXTENDS Integers, Sequences, FiniteSets, TLC

Null == "null"

\* ---------------------------------------------------------------- bounds
MaxStock == 2        \* initial stock of a product is drawn from 0..MaxStock
MaxQty == 2          \* line quantities are drawn from 1..MaxQty
TicksPerMs == 2      \* ticks of the store's clock (microseconds) in a millisecond

\* ------------------------------------------------------------ the actors
Creators == {"r1", "r2"}         \* order-creation requests (one order each)
Admins == {"a1", "a2"}           \* status-transition requests
Trackers == {"t1"}               \* tracking lookups
NoteRequests == {"n1"}           \* notes-update requests
Sockets == {"s1", "s2"}          \* socket.io clients
Reviewers == {"v1", "v2", "v3"}  \* create-review requests
Readers == {"g1", "g2"}          \* requests of a user for the user's orders

\* ------------------------------------------------------------- the store
Users == {"u1", "u2"}
userEmail == [u \in Users |-> IF u = "u1" THEN "Ann@shop.io" ELSE "bob@shop.io"]
authUser == [r \in Creators |-> IF r = "r1" THEN "u1" ELSE "u2"]

Products == {"p1", "p2"}
GhostProduct == "p9"             \* a product id with no row in products

SeedOrder == "o0"                \* an order row that has no owning user
GhostOrder == "o9"               \* an order id with no row in orders
OrderNumbers == {"ORD-1", "ORD-2"}
SeedNumber == "ORD-0"
GhostNumber == "ORD-9"           \* an order number no order carries

validStatuses == {"pending", "processing", "shipped", "delivered", "cancelled"}
TrackingNumbers == {"TRK123", "TRK456"}

\* (the comparison of the strings as they are)
toLowerCase_CaseKept(s) == s

\* String.prototype.toLowerCase on the e-mail strings of the model
toLowerCase(s) ==
  CASE s = "Ann@shop.io" -> "ann@shop.io"
    [] s = "ANN@SHOP.IO" -> "ann@shop.io"
    [] s = "Bob@shop.io" -> "bob@shop.io"
    [] OTHER -> s

\* encodeURIComponent on the e-mail strings of the model: "@" becomes "%40".
encodeURIComponent(s) ==
  CASE s = "Ann@shop.io" -> "Ann%40shop.io"
    [] s = "ANN@SHOP.IO" -> "ANN%40SHOP.IO"
    [] s = "bob@shop.io" -> "bob%40shop.io"
    [] OTHER -> s

\* The parse of a query string (req.query): "%40" becomes "@" again.
decodeURIComponent(s) ==
  CASE s = "Ann%40shop.io" -> "Ann@shop.io"
    [] s = "ANN%40SHOP.IO" -> "ANN@SHOP.IO"
    [] s = "bob%40shop.io" -> "bob@shop.io"
    [] OTHER -> s

\* ------------------------------------------------------- request bodies
AddrFields == {"address", "city", "state", "zipCode", "country", "phoneCode", "phone"}

Item(p, q) == [id |-> p, quantity |-> q]
NoItems == [kind |-> "absent", list |-> <<>>]
NotAList == [kind |-> "object", list |-> <<>>]
ItemList(l) == [kind |-> "array", list |-> l]

Amount(n) == [kind |-> "number", val |-> n]
NoAmount == [kind |-> "absent", val |-> 0]
TextAmount == [kind |-> "text", val |-> 0]      \* a non-numeric string
GoodAmount == Amount(20)

\* shipping_address is the set of the fields that are there; email is the
\* value of shipping_address.email, Null when the address has none.
Body(items, addr, total) ==
  [items |-> items, shipping_address |-> addr, total_amount |-> total, email |-> Null]
WithEmail(body, email) == [body EXCEPT !.email = email]

VARIABLES
  orders,          \* orders table: a function from the ids of its rows to the rows
  order_items,     \* order_items table: a set of rows
  history,         \* order_status_history table, in created_at order
  stock,           \* products.stock
  creq,            \* the order-creation requests
  areq,            \* the status-transition requests
  treq,            \* the tracking lookups
  emails,          \* the e-mail sends attempted so far
  broadcasts,      \* the order-status-update events emitted so far
  now,             \* the store's clock, read by DEFAULT NOW() of created_at
  nreq,            \* the notes-update requests
  sockets,         \* the socket.io clients: connection, rooms, events received
  product_reviews, \* product_reviews table: a set of rows
  vreq,            \* the create-review requests
  oreq             \* the requests of the user order endpoints

vars ==
  <<orders, order_items, history, stock, creq, areq, treq, emails, broadcasts, now,
    nreq, sockets, product_reviews, vreq, oreq>>
store == <<orders, order_items, history, stock, now>>
aux == <<product_reviews, vreq, oreq>>

\* ------------------------------------------------ rows and their shapes
OrderRow(id, number, user, total, address) ==
  [id |-> id, order_number |-> number, user_id |-> user, total_amount |-> total,
   status |-> "pending", payment_status |-> "completed", payment_method |-> "card",
   shipping_address |-> address, tracking_number |-> Null, notes |-> Null,
   created_at |-> now, updated_at |-> now]

\* The trigger update_orders_updated_at: BEFORE UPDATE ON orders, every
\* update of a row sets its updated_at to NOW().
update_updated_at_column(row) == [row EXCEPT !.updated_at = now]

HistoryRow(order, status, comment, by) ==
  [order_id |-> order, status |-> status, comment |-> comment, updated_by |-> by,
   created_at |-> now]

Exists(o) == o \in DOMAIN orders

HistoryOf(o) == SelectSeq(history, LAMBDA h : h.order_id = o)
ItemsOf(o) == {l \in order_items : l.order_id = o}

\* A response: the HTTP status, the error text, and the order data it carries
\* (a set holding the order row, history the rows of its status history).
Res(code, msg, order, lines, hist) ==
  [status |-> code, error |-> msg, order |-> order, order_items |-> lines,
   order_status_history |-> hist]
NoRes == Res(0, Null, {}, {}, <<>>)
ErrorRes(code, msg) == Res(code, msg, {}, {}, <<>>)

\* What a call of the store can do beside what the schema decides: return
\* its data, or return an error (the connection, a timeout).  A store that
\* never fails on its own has only the first.
StoreResults == {"ok", "error"}
Reliable == {"ok"}

\* ============================================================ POST /
\* Lines 23-42: the first failing check decides the message.
Falsy(t) == t.kind = "absent" \/ (t.kind = "number" /\ t.val = 0)
NotPositive(t) == t.kind = "number" /\ t.val <= 0

\* (the validation without the check of the phone number)
ValidateOrder_NoPhoneCheck(b) ==
  IF b.items.kind # "array" \/ Len(b.items.list) = 0
    THEN "Order items are required"
  ELSE IF ~({"address", "city", "state", "zipCode"} \subseteq b.shipping_address)
    THEN "Complete shipping address is required"
  ELSE IF "country" \notin b.shipping_address
    THEN "Country is required"
  ELSE IF Falsy(b.total_amount) \/ NotPositive(b.total_amount)
    THEN "Invalid order total"
  ELSE "ok"

ValidateOrder(b) ==
  IF b.items.kind # "array" \/ Len(b.items.list) = 0
    THEN "Order items are required"
  ELSE IF ~({"address", "city", "state", "zipCode"} \subseteq b.shipping_address)
    THEN "Complete shipping address is required"
  ELSE IF "country" \notin b.shipping_address
    THEN "Country is required"
  ELSE IF "phoneCode" \notin b.shipping_address \/ "phone" \notin b.shipping_address
    THEN "Phone number with country code is required"
  ELSE IF Falsy(b.total_amount) \/ NotPositive(b.total_amount)
    THEN "Invalid order total"
  ELSE "ok"

\* (the store without the UNIQUE constraint)
OrderNumberTaken_NotEnforced(n) == FALSE

\* orders.order_number is UNIQUE NOT NULL: an insert of a taken number fails.
OrderNumberTaken(n) == \E o \in DOMAIN orders : orders[o].order_number = n

\* parseFloat(total_amount) of a non-numeric string is NaN, which the
\* NOT NULL DECIMAL column total_amount refuses.
parseFloatOk(t) == t.kind = "number"

\* order_items.product_id REFERENCES products(id): a line naming no product fails.
ItemsInsertable(list) == \A i \in 1..Len(list) : list[i].id \in Products

\* Lines 81-89: one row per input item, each bound to the new order's id.
orderItems(order, list) ==
  {[id |-> <<order, i>>, order_id |-> order, product_id |-> list[i].id,
    quantity |-> list[i].quantity] : i \in 1..Len(list)}

\* Lines 47-56: the address as it is stored, under the column's key names.
StoredKey(f) ==
  CASE f = "address" -> "street"
    [] f = "zipCode" -> "zip_code"
    [] f = "phoneCode" -> "phone_code"
    [] OTHER -> f
formattedShippingAddress(shipping_address) == {StoredKey(f) : f \in shipping_address}

Set(f, r, fields) == [f EXCEPT ![r] = fields @@ f[r]]

\* Lines 10-45: destructure, validate, generate the order number.
CreateOrder_Validate(r, body, number) ==
  /\ creq[r].pc = "idle"
  /\ LET v == ValidateOrder(body)
     IN  IF v # "ok"
           THEN creq' = Set(creq, r, [pc |-> "done", body |-> body, res |-> ErrorRes(400, v)])
           ELSE creq' = Set(creq, r, [pc |-> "insert_order", body |-> body,
                                      orderNumber |-> number])
  /\ UNCHANGED <<store, areq, treq, emails, broadcasts, nreq, sockets, aux>>

\* (the catch block that logs the error and sends nothing)
FailedToCreate_NotSent == NoRes

\* Lines 354-360: the catch block of the handler answers 500.
FailedToCreate == ErrorRes(500, "Failed to create order")

\* Lines 58-78: insert the order row; any store error is thrown to line 354.
CreateOrder_InsertOrder(r, result) ==
  /\ creq[r].pc = "insert_order"
  /\ IF result = "error" \/ OrderNumberTaken(creq[r].orderNumber)
          \/ ~parseFloatOk(creq[r].body.total_amount)
       THEN /\ creq' = Set(creq, r, [pc |-> "done", res |-> FailedToCreate])
            /\ UNCHANGED orders
       ELSE LET row == OrderRow(r, creq[r].orderNumber, authUser[r],
                                creq[r].body.total_amount.val,
                                formattedShippingAddress(creq[r].body.shipping_address))
            IN  /\ orders' = (r :> row) @@ orders
                /\ creq' = Set(creq, r, [pc |-> "insert_items", order |-> {row}])
  /\ UNCHANGED <<order_items, history, stock, now, areq, treq, emails, broadcasts, nreq, sockets, aux>>

\* Lines 80-97: insert all lines in one statement.
CreateOrder_InsertItems(r, result) ==
  /\ creq[r].pc = "insert_items"
  /\ LET list == creq[r].body.items.list
     IN  IF result = "ok" /\ ItemsInsertable(list) /\ Exists(r)
           THEN /\ order_items' = order_items \cup orderItems(r, list)
                /\ creq' = Set(creq, r, [pc |-> "insert_history",
                                         createdItems |-> orderItems(r, list)])
           ELSE /\ creq' = Set(creq, r, [pc |-> "rollback"])
                /\ UNCHANGED order_items
  /\ UNCHANGED <<orders, history, stock, now, areq, treq, emails, broadcasts, nreq, sockets, aux>>

\* ON DELETE CASCADE of order_items.order_id and order_status_history.order_id
CascadeItems(o) == {l \in order_items : l.order_id # o}
CascadeHistory(o) == SelectSeq(history, LAMBDA h : h.order_id # o)

\* (the error path without the compensating delete)
DeleteOrder_Skipped(id) == orders

\* Line 99: .from('orders').delete().eq('id', order.id)
DeleteOrder(id) == [o \in DOMAIN orders \ {id} |-> orders[o]]

\* Lines 98-100 and 354-360: compensating delete (its result is not looked
\* at), then the error is thrown.
CreateOrder_Rollback(r, result) ==
  /\ creq[r].pc = "rollback"
  /\ IF result = "ok"
       THEN /\ orders' = DeleteOrder(r)
            /\ order_items' = CascadeItems(r)
            /\ history' = CascadeHistory(r)
       ELSE UNCHANGED <<orders, order_items, history>>
  /\ creq' = Set(creq, r, [pc |-> "done", res |-> FailedToCreate])
  /\ UNCHANGED <<stock, now, areq, treq, emails, broadcasts, nreq, sockets, aux>>

\* An insert into order_status_history: order_id REFERENCES orders(id), so a
\* row naming no order is refused; created_at takes the clock, which moves on.
InsertHistory(row, result) ==
  /\ history' = IF result = "ok" /\ Exists(row.order_id) THEN Append(history, row)
                ELSE history
  /\ now' = now + 1

\* Lines 103-113: the initial entry; the result of the insert is not looked at.
InitialEntry(o) == HistoryRow(o, "pending", "Order placed successfully", Null)

CreateOrder_InsertHistory(r, result) ==
  /\ creq[r].pc = "insert_history"
  /\ InsertHistory(InitialEntry(r), result)
  /\ creq' = Set(creq, r, [pc |-> "read_stock", i |-> 1])
  /\ UNCHANGED <<orders, order_items, stock, areq, treq, emails, broadcasts, nreq, sockets, aux>>

\* Line 116 and 129: the loop over items moves on, or is over.
NextItem(r) ==
  IF creq[r].i < Len(creq[r].body.items.list)
    THEN [pc |-> "read_stock", i |-> creq[r].i + 1]
    ELSE [pc |-> "respond"]

\* (the decrement without the comparison of stock and quantity)
CanDecrement_Unchecked(product, quantity) == product.found

\* Line 123: the guard of the decrement, on the stock that was read.
CanDecrement(product, quantity) == product.found /\ product.stock >= quantity

\* Lines 117-123: read the product's stock; a failed read gives no product.
CreateOrder_ReadStock(r, result) ==
  /\ creq[r].pc = "read_stock"
  /\ LET item == creq[r].body.items.list[creq[r].i]
         product == IF result = "ok" /\ item.id \in Products
                      THEN [found |-> TRUE, id |-> item.id, stock |-> stock[item.id]]
                      ELSE [found |-> FALSE, id |-> item.id, stock |-> 0]
     IN  IF CanDecrement(product, item.quantity)
           THEN creq' = Set(creq, r, [pc |-> "update_stock", product |-> product])
           ELSE creq' = Set(creq, r, NextItem(r))
  /\ UNCHANGED <<store, areq, treq, emails, broadcasts, nreq, sockets, aux>>

\* (the decrement done by the store on the stock as it is at the write)
NewStock_InStore(product, quantity) == stock[product.id] - quantity

\* Line 126: the value written is computed from the stock read at line 117.
NewStock(product, quantity) == product.stock - quantity

\* Lines 124-128: write the decremented stock (the result is not looked at).
CreateOrder_UpdateStock(r, result) ==
  /\ creq[r].pc = "update_stock"
  /\ LET item == creq[r].body.items.list[creq[r].i]
     IN  stock' = IF result = "ok"
                   THEN [stock EXCEPT ![item.id] = NewStock(creq[r].product, item.quantity)]
                   ELSE stock
  /\ creq' = Set(creq, r, NextItem(r))
  /\ UNCHANGED <<orders, order_items, history, now, areq, treq, emails, broadcasts, nreq, sockets, aux>>

\* Lines 131-142: respond with the inserted row and lines, schedule the mails.
CreateOrder_Respond(r) ==
  /\ creq[r].pc = "respond"
  /\ creq' = Set(creq, r, [pc |-> "email_customer",
                           res |-> Res(201, Null, creq[r].order,
                                       creq[r].createdItems, <<>>)])
  /\ UNCHANGED <<store, areq, treq, emails, broadcasts, nreq, sockets, aux>>

\* What resend.emails.send can do: return an id, return an error, throw.
SendOutcomes == {"sent", "error", "thrown"}
Mail(req, kind, outcome) == [req |-> req, kind |-> kind, outcome |-> outcome]

\* Lines 159-255: the customer confirmation; a throw ends the callback at 349.
CreateOrder_SendCustomerEmail(r, outcome) ==
  /\ creq[r].pc = "email_customer"
  /\ emails' = emails \cup {Mail(r, "customer", outcome)}
  /\ creq' = Set(creq, r, [pc |-> IF outcome = "thrown" THEN "done" ELSE "email_operator"])
  /\ UNCHANGED <<store, areq, treq, broadcasts, nreq, sockets, aux>>

\* Lines 257-348: the notification to the store operator.
CreateOrder_SendAdminEmail(r, outcome) ==
  /\ creq[r].pc = "email_operator"
  /\ emails' = emails \cup {Mail(r, "operator", outcome)}
  /\ creq' = Set(creq, r, [pc |-> "done"])
  /\ UNCHANGED <<store, areq, treq, broadcasts, nreq, sockets, aux>>

\* Lines 145 and 231: shipping_address.email || req.user.email, and the link
\* of the confirmation mail built from the order number and that e-mail.
customerEmail(r) ==
  IF creq[r].body.email # Null THEN creq[r].body.email ELSE userEmail[authUser[r]]

trackUrl(r) ==
  [orderNumber |-> creq[r].orderNumber, email |-> encodeURIComponent(customerEmail(r))]

CreateOrder(r, outcomes, results) ==
  \/ \E result \in results : CreateOrder_InsertOrder(r, result)
  \/ \E result \in results : CreateOrder_InsertItems(r, result)
  \/ \E result \in results : CreateOrder_Rollback(r, result)
  \/ \E result \in results : CreateOrder_InsertHistory(r, result)
  \/ \E result \in results : CreateOrder_ReadStock(r, result)
  \/ \E result \in results : CreateOrder_UpdateStock(r, result)
  \/ CreateOrder_Respond(r)
  \/ \E outcome \in outcomes : CreateOrder_SendCustomerEmail(r, outcome)
  \/ \E outcome \in outcomes : CreateOrder_SendAdminEmail(r, outcome)

\* ================================= PATCH /orders/:orderId/status (admin.js)
adminId == [a \in Admins |-> IF a = "a1" THEN "adm1" ELSE "adm2"]

StatusChange(orderId, status, comment, tracking_number, notify_customer) ==
  [orderId |-> orderId, status |-> status, comment |-> comment,
   tracking_number |-> tracking_number, notify_customer |-> notify_customer]

\* (the validation without the check against the enum)
ValidateStatus_AnyStatus(status) ==
  IF status = Null THEN "Status is required" ELSE "ok"

\* Lines 406-413: a missing (or empty) status, then a status outside the enum.
ValidateStatus(status) ==
  IF status = Null THEN "Status is required"
  ELSE IF status \notin validStatuses THEN "Invalid status"
  ELSE "ok"

\* The embedded users!orders_user_id_fkey: the owning user's row, if any.
UsersOf(row) ==
  IF row.user_id \in Users
    THEN {[id |-> row.user_id, email |-> userEmail[row.user_id]]}
    ELSE {}

\* Lines 401-413: destructure and validate.
UpdateStatus_Validate(a, in) ==
  /\ areq[a].pc = "idle"
  /\ LET v == ValidateStatus(in.status)
     IN  IF v # "ok"
           THEN areq' = Set(areq, a, [pc |-> "done", in |-> in, res |-> ErrorRes(400, v)])
           ELSE areq' = Set(areq, a, [pc |-> "load", in |-> in])
  /\ UNCHANGED <<store, creq, treq, emails, broadcasts, nreq, sockets, aux>>

\* Lines 415-431: load the order with its user; no data is a 404.
UpdateStatus_Load(a, result) ==
  /\ areq[a].pc = "load"
  /\ IF result = "ok" /\ Exists(areq[a].in.orderId)
       THEN areq' = Set(areq, a, [pc |-> "update",
                                  order |-> {orders[areq[a].in.orderId]}])
       ELSE areq' = Set(areq, a, [pc |-> "done", res |-> ErrorRes(404, "Order not found")])
  /\ UNCHANGED <<store, creq, treq, emails, broadcasts, nreq, sockets, aux>>

\* (the update without the tracking number)
updateData_StatusOnly(row, in) == [row EXCEPT !.status = in.status]

\* (the update that only moves an order forward along the usual path)
StatusRank(status) ==
  CASE status = "pending" -> 1
    [] status = "processing" -> 2
    [] status = "shipped" -> 3
    [] status = "delivered" -> 4
    [] OTHER -> 5
updateData_ForwardOnly(row, in) ==
  IF StatusRank(in.status) > StatusRank(row.status)
    THEN [row EXCEPT !.status = in.status]
    ELSE row

\* (the update that also writes the comment into notes)
updateData_CommentAsNotes(row, in) ==
  [row EXCEPT !.status = in.status, !.tracking_number = in.tracking_number,
              !.notes = in.comment]

\* (the update that writes the tracking number of the request whatever it is)
updateData_TrackingAlways(row, in) ==
  [row EXCEPT !.status = in.status, !.tracking_number = in.tracking_number]

\* Lines 433-437: status always, tracking_number only when it is truthy.
updateData(row, in) ==
  IF in.tracking_number # Null
    THEN [row EXCEPT !.status = in.status, !.tracking_number = in.tracking_number]
    ELSE [row EXCEPT !.status = in.status]

\* Lines 439-446: update the row; .single() on no row is an error, thrown to 509.
UpdateStatus_Update(a, result) ==
  /\ areq[a].pc = "update"
  /\ LET o == areq[a].in.orderId
     IN  IF result = "ok" /\ Exists(o)
           THEN /\ orders' = [orders EXCEPT
                               ![o] = update_updated_at_column(updateData(@, areq[a].in))]
                /\ areq' = Set(areq, a, [pc |-> "history", updatedOrder |-> {orders'[o]}])
           ELSE /\ areq' = Set(areq, a, [pc |-> "done",
                                         res |-> ErrorRes(500, "Failed to update order status")])
                /\ UNCHANGED orders
  /\ UNCHANGED <<order_items, history, stock, now, creq, treq, emails, broadcasts, nreq, sockets, aux>>

\* admin_users.name (NOT NULL) of the administrators.
adminName == [a \in Admins |-> IF a = "a1" THEN "Alice" ELSE "Bruno"]

\* Lines 49-53: the token of an administrator is signed with id, email, role
\* and isAdmin; authenticateAdmin makes the decoded token req.admin.
decoded(a) == [id |-> adminId[a], role |-> "admin", isAdmin |-> TRUE]

\* Line 477: req.admin.name || 'Admin'.
ActorName(a) ==
  IF "name" \in DOMAIN decoded(a) THEN decoded(a).name ELSE "Admin"

\* Lines 470-478: the event emitted to the room order-<orderId>.
StatusEvent(a) ==
  LET order == CHOOSE row \in areq[a].order : TRUE
  IN  [orderId |-> areq[a].in.orderId, orderNumber |-> order.order_number,
       status |-> areq[a].in.status, comment |-> areq[a].in.comment,
       trackingNumber |-> areq[a].in.tracking_number, timestamp |-> now,
       updatedBy |-> ActorName(a)]

\* `order-${orderId}`: the name of the room of an order id.
Room(orderId) == <<"order", orderId>>

\* io.to(room).emit(event): the sockets that are in the room now receive it.
Emit(room, event) ==
  [s \in Sockets |->
     IF room \in sockets[s].rooms
       THEN [sockets[s] EXCEPT !.received = Append(@, event)]
       ELSE sockets[s]]

\* Line 483: whether the customer is mailed.
ShouldNotify(a) ==
  LET order == CHOOSE row \in areq[a].order : TRUE
  IN  areq[a].in.notify_customer /\ UsersOf(order) # {}

StatusRes(a) == Res(200, "Order status updated successfully", areq[a].updatedOrder, {}, <<>>)

\* Lines 448-481 and, without a mail, 505-508: insert the history entry (its
\* result is not looked at), emit the event, then mail or respond.
UpdateStatus_History(a, result) ==
  /\ areq[a].pc = "history"
  /\ InsertHistory(HistoryRow(areq[a].in.orderId, areq[a].in.status,
                              areq[a].in.comment, adminId[a]), result)
  /\ broadcasts' = Append(broadcasts, StatusEvent(a))
  /\ sockets' = Emit(Room(areq[a].in.orderId), StatusEvent(a))
  /\ IF ShouldNotify(a)
       THEN areq' = Set(areq, a, [pc |-> "email"])
       ELSE areq' = Set(areq, a, [pc |-> "done", res |-> StatusRes(a)])
  /\ UNCHANGED <<orders, order_items, stock, creq, treq, emails, nreq, aux>>

\* (the send without the try and catch around it: a throw reaches line 509)
ResAfterMail_Uncaught(a, outcome) ==
  IF outcome = "thrown" THEN ErrorRes(500, "Failed to update order status")
  ELSE StatusRes(a)

\* Lines 484-508: the result of the send is not looked at and a throw is
\* caught at 499, so the response is the one of a transition without a mail.
ResAfterMail(a, outcome) == StatusRes(a)

\* Lines 483-508: the awaited status mail, whose failure is caught, then the response.
UpdateStatus_Email(a, outcome) ==
  /\ areq[a].pc = "email"
  /\ emails' = emails \cup {Mail(a, "status", outcome)}
  /\ areq' = Set(areq, a, [pc |-> "done", res |-> ResAfterMail(a, outcome)])
  /\ UNCHANGED <<store, creq, treq, broadcasts, nreq, sockets, aux>>

UpdateStatus(a, outcomes, results) ==
  \/ \E result \in results : UpdateStatus_Load(a, result)
  \/ \E result \in results : UpdateStatus_Update(a, result)
  \/ \E result \in results : UpdateStatus_History(a, result)
  \/ \E outcome \in outcomes : UpdateStatus_Email(a, outcome)

\* ================================== PATCH /orders/:orderId/notes (admin.js)
\* Lines 515-535: one update of the column notes; .single() on no row is an
\* error, thrown to the catch and answered 500.
UpdateNotes(n, orderId, notes) ==
  /\ nreq[n].pc = "idle"
  /\ IF Exists(orderId)
       THEN /\ orders' = [orders EXCEPT
                           ![orderId] = update_updated_at_column([@ EXCEPT !.notes = notes])]
            /\ nreq' = Set(nreq, n,
                 [pc |-> "done", orderId |-> orderId, notes |-> notes,
                  res |-> Res(200, "Notes updated successfully", {orders'[orderId]}, {}, <<>>)])
       ELSE /\ nreq' = Set(nreq, n,
                 [pc |-> "done", orderId |-> orderId, notes |-> notes,
                  res |-> ErrorRes(500, "Failed to update notes")])
            /\ UNCHANGED orders
  /\ UNCHANGED <<order_items, history, stock, now, creq, areq, treq, emails, broadcasts,
                 sockets, aux>>

\* ======================================== socket.io connections (index.js)
Unconnected == [connected |-> FALSE, rooms |-> {}, received |-> <<>>]

\* Line 72: a client connects.
Connect(s) ==
  /\ ~sockets[s].connected
  /\ sockets' = [sockets EXCEPT ![s].connected = TRUE]
  /\ UNCHANGED <<store, creq, areq, treq, emails, broadcasts, nreq, aux>>

\* Lines 76-79: 'join-order' puts the socket in the room of the order id.
JoinOrder(s, orderId) ==
  /\ sockets[s].connected
  /\ sockets' = [sockets EXCEPT ![s].rooms = @ \cup {Room(orderId)}]
  /\ UNCHANGED <<store, creq, areq, treq, emails, broadcasts, nreq, aux>>

\* Lines 82-85: 'leave-order' takes it out.
LeaveOrder(s, orderId) ==
  /\ sockets[s].connected
  /\ sockets' = [sockets EXCEPT ![s].rooms = @ \ {Room(orderId)}]
  /\ UNCHANGED <<store, creq, areq, treq, emails, broadcasts, nreq, aux>>

\* Lines 87-89: a disconnected socket is in no room any more.
Disconnect(s) ==
  /\ sockets[s].connected
  /\ sockets' = [sockets EXCEPT ![s].connected = FALSE, ![s].rooms = {}]
  /\ UNCHANGED <<store, creq, areq, treq, emails, broadcasts, nreq, aux>>

\* ============================== GET /track/:orderNumber (routes/upload.js)
\* (the query without its filter on order_number)
FindByNumber_Unfiltered(n) == DOMAIN orders

\* .eq('order_number', orderNumber).single(): the one row, an error otherwise.
FindByNumber(n) == {o \in DOMAIN orders : orders[o].order_number = n}

\* (the comparison without the test for a missing owner)
EmailMatches_OwnerOptional(users, email) ==
  \A u \in users : toLowerCase(u.email) = toLowerCase(email)

\* Lines 200 and 244: the owning user's e-mail, compared without case.
EmailMatches(users, email) ==
  /\ users # {}
  /\ \A u \in users : toLowerCase(u.email) = toLowerCase(email)

\* A stable sort of rows tagged with their keys (insertion sort): a row goes
\* before the first row whose key is larger, so equal keys keep their order.
RECURSIVE InsertSorted(_, _)
InsertSorted(sorted, h) ==
  IF sorted = <<>> THEN <<h>>
  ELSE IF h.key < Head(sorted).key THEN <<h>> \o sorted
  ELSE <<Head(sorted)>> \o InsertSorted(Tail(sorted), h)

RECURSIVE Sort(_)
Sort(keyed) ==
  IF keyed = <<>> THEN <<>>
  ELSE InsertSorted(Sort(SubSeq(keyed, 1, Len(keyed) - 1)), keyed[Len(keyed)])

Rows(keyed) == [i \in 1..Len(keyed) |-> keyed[i].row]

\* new Date(created_at): a Date counts milliseconds, created_at (TIMESTAMP
\* WITH TIME ZONE) counts microseconds; the parse drops what is below.
Date(created_at) == created_at \div TicksPerMs

\* Lines 205-209: Array.prototype.sort with the difference of the two Dates.
SortByCreatedAt(rows) ==
  Rows(Sort([i \in 1..Len(rows) |-> [key |-> Date(rows[i].created_at), row |-> rows[i]]]))

\* Line 262: .order('created_at', { ascending: true }), done by the store.
OrderByCreatedAt(rows) ==
  Rows(Sort([i \in 1..Len(rows) |-> [key |-> rows[i].created_at, row |-> rows[i]]]))

\* The rows of a query without an ordering come in an order the store chooses.
StoreOrders(rows) ==
  {[i \in 1..Len(rows) |-> rows[p[i]]] : p \in Permutations(1..Len(rows))}

\* Lines 194-211: what the lookup answers for the rows found, embedded being
\* the order's status history as the store returned it.
TrackResponse(found, email, embedded) ==
  IF Cardinality(found) # 1 THEN ErrorRes(404, "Order not found")
  ELSE LET o == CHOOSE x \in found : TRUE
       IN  IF ~EmailMatches(UsersOf(orders[o]), email)
             THEN ErrorRes(403, "Invalid email for this order")
             ELSE Res(200, Null, {orders[o]}, ItemsOf(o), SortByCreatedAt(embedded))

\* The embedded order_status_history of the rows found.
EmbeddedHistory(found) ==
  IF Cardinality(found) # 1 THEN <<>> ELSE HistoryOf(CHOOSE x \in found : TRUE)

\* Lines 143-216: the whole lookup is one query and its answer.
TrackOrder(t, orderNumber, email) ==
  /\ treq[t].pc = "idle"
  /\ \E embedded \in StoreOrders(EmbeddedHistory(FindByNumber(orderNumber))) :
       treq' = Set(treq, t,
         [pc |-> "done", route |-> "track", orderNumber |-> orderNumber, email |-> email,
          res |-> IF email = Null
                    THEN ErrorRes(400, "Email is required to track order")
                    ELSE TrackResponse(FindByNumber(orderNumber), email, embedded)])
  /\ UNCHANGED <<store, creq, areq, emails, broadcasts, nreq, sockets, aux>>

\* The lookup made from the link of r's confirmation mail, once that mail
\* has been handed to the mail service.
FollowLink(t, r) ==
  /\ Mail(r, "customer", "sent") \in emails
  /\ TrackOrder(t, trackUrl(r).orderNumber, decodeURIComponent(trackUrl(r).email))

\* Lines 219-246: the first query of /updates, which checks the owner.
TrackUpdates_Verify(t, orderNumber, email) ==
  /\ treq[t].pc = "idle"
  /\ LET found == FindByNumber(orderNumber)
         first == IF email = Null THEN ErrorRes(400, "Email is required")
                  ELSE TrackResponse(found, email, <<>>)
     IN  treq' = Set(treq, t,
           [route |-> "updates", orderNumber |-> orderNumber, email |-> email,
            pc |-> IF first.status = 200 THEN "updates" ELSE "done",
            orderId |-> IF first.status = 200 THEN CHOOSE x \in found : TRUE ELSE Null,
            res |-> IF first.status = 200 THEN NoRes ELSE first])
  /\ UNCHANGED <<store, creq, areq, emails, broadcasts, nreq, sockets, aux>>

\* Lines 248-265: the second query, ordered by created_at in the store.
TrackUpdates_Fetch(t) ==
  /\ treq[t].pc = "updates"
  /\ \E rows \in StoreOrders(HistoryOf(treq[t].orderId)) :
       treq' = Set(treq, t, [pc |-> "done",
                             res |-> Res(200, Null, {}, {}, OrderByCreatedAt(rows))])
  /\ UNCHANGED <<store, creq, areq, emails, broadcasts, nreq, sockets, aux>>

\* ================= GET /my-orders and GET /:orderId (unnamed/part_001)
BadOrderId == "not-a-uuid"       \* a path parameter that is no UUID

\* (the query without its filter on the owning user)
OwnedBy_Unfiltered(ords, userId) == DOMAIN ords

\* .eq('user_id', userId): the rows of a table of orders that userId owns.
OwnedBy(ords, userId) == {o \in DOMAIN ords : ords[o].user_id = userId}

\* An order as the two queries return it: the row with its embedded lines
\* and status history (the embedded rows, whose order the store chooses, as sets).
OrderView(ords, items, hist, o) ==
  [order |-> ords[o],
   order_items |-> {l \in items : l.order_id = o},
   order_status_history |-> {hist[i] : i \in {j \in 1..Len(hist) : hist[j].order_id = o}}]

ReadRes(code, msg, views) == [status |-> code, error |-> msg, orders |-> views]

\* Lines 368-398: the orders of the user, newest first.
myOrders(ords, items, hist, userId) ==
  LET own == OwnedBy(ords, userId)
      rows == CHOOSE seq \in [1..Cardinality(own) -> own] :
                \A i, j \in 1..Cardinality(own) : i # j => seq[i] # seq[j]
      newestFirst == Rows(Sort([i \in 1..Len(rows) |->
                       [key |-> 0 - ords[rows[i]].created_at, row |-> rows[i]]]))
  IN  ReadRes(200, Null, [i \in 1..Len(newestFirst) |->
                            OrderView(ords, items, hist, newestFirst[i])])

\* Lines 411-450: the order with this id that the user owns; no row is
\* PGRST116 and a 404, an id that is no UUID is another error and a 500.
orderById(ords, items, hist, userId, orderId) ==
  IF orderId = BadOrderId THEN ReadRes(500, "Failed to fetch order details", <<>>)
  ELSE IF orderId \notin OwnedBy(ords, userId) THEN ReadRes(404, "Order not found", <<>>)
  ELSE ReadRes(200, Null, <<OrderView(ords, items, hist, orderId)>>)

\* Lines 364-403: the whole handler is one query and its answer.
MyOrders(g, userId) ==
  /\ oreq[g].pc = "idle"
  /\ oreq' = Set(oreq, g, [pc |-> "done", route |-> "my-orders", user |-> userId,
                           res |-> myOrders(orders, order_items, history, userId)])
  /\ UNCHANGED <<store, creq, areq, treq, emails, broadcasts, nreq, sockets,
                 product_reviews, vreq>>

\* Lines 406-455: the whole handler is one query and its answer.
GetOrder(g, userId, orderId) ==
  /\ oreq[g].pc = "idle"
  /\ oreq' = Set(oreq, g, [pc |-> "done", route |-> "order", user |-> userId,
                           orderId |-> orderId,
                           res |-> orderById(orders, order_items, history, userId, orderId)])
  /\ UNCHANGED <<store, creq, areq, treq, emails, broadcasts, nreq, sockets,
                 product_reviews, vreq>>

\* ============================================ POST / (routes/reviews.js)
ReviewBody(product_id, rating) == [product_id |-> product_id, rating |-> rating]

ReviewRes(code, msg, review) == [status |-> code, error |-> msg, review |-> review]

\* Lines 112-118: product_id and rating are there (a rating of 0 is falsy),
\* then the rating is within 1..5.
ValidateReview(b) ==
  IF b.product_id = Null \/ b.rating = 0
    THEN "Product ID and rating are required"
  ELSE IF b.rating < 1 \/ b.rating > 5
    THEN "Rating must be between 1 and 5"
  ELSE "ok"

ReviewsOf(product_id, user_id) ==
  {x \in product_reviews : x.product_id = product_id /\ x.user_id = user_id}

\* Lines 132-137: .eq('product_id').eq('user_id').single() gives the row when
\* there is exactly one, and no data otherwise.
existingReview(product_id, user_id) ==
  IF Cardinality(ReviewsOf(product_id, user_id)) = 1
    THEN ReviewsOf(product_id, user_id)
    ELSE {}

\* (the table without its UNIQUE constraint)
ReviewTaken_NotEnforced(product_id, user_id) == FALSE

\* UNIQUE(product_id, user_id) of product_reviews: an insert of a taken pair fails.
ReviewTaken(product_id, user_id) == ReviewsOf(product_id, user_id) # {}

ReviewRow(v, product_id, user_id, rating) ==
  [id |-> v, product_id |-> product_id, user_id |-> user_id, rating |-> rating,
   helpful_count |-> 0]

\* Lines 100-118: destructure and validate.
CreateReview_Validate(v, user, body) ==
  /\ vreq[v].pc = "idle"
  /\ LET val == ValidateReview(body)
     IN  IF val # "ok"
           THEN vreq' = Set(vreq, v, [pc |-> "done", user |-> user, body |-> body,
                                      res |-> ReviewRes(400, val, {})])
           ELSE vreq' = Set(vreq, v, [pc |-> "find_product", user |-> user, body |-> body])
  /\ UNCHANGED <<store, creq, areq, treq, emails, broadcasts, nreq, sockets,
                 product_reviews, oreq>>

\* Lines 120-129: the product must exist.
CreateReview_FindProduct(v) ==
  /\ vreq[v].pc = "find_product"
  /\ IF vreq[v].body.product_id \in Products
       THEN vreq' = Set(vreq, v, [pc |-> "find_existing"])
       ELSE vreq' = Set(vreq, v, [pc |-> "done",
                                  res |-> ReviewRes(404, "Product not found", {})])
  /\ UNCHANGED <<store, creq, areq, treq, emails, broadcasts, nreq, sockets,
                 product_reviews, oreq>>

\* Lines 131-141: a review of this user for this product is a duplicate.
CreateReview_FindExisting(v) ==
  /\ vreq[v].pc = "find_existing"
  /\ IF existingReview(vreq[v].body.product_id, vreq[v].user) # {}
       THEN vreq' = Set(vreq, v, [pc |-> "done",
              res |-> ReviewRes(400, "You have already reviewed this product", {})])
       ELSE vreq' = Set(vreq, v, [pc |-> "insert"])
  /\ UNCHANGED <<store, creq, areq, treq, emails, broadcasts, nreq, sockets,
                 product_reviews, oreq>>

\* Lines 143-165: insert the review; a store error is thrown to line 162.
CreateReview_Insert(v) ==
  /\ vreq[v].pc = "insert"
  /\ IF ReviewTaken(vreq[v].body.product_id, vreq[v].user)
       THEN /\ vreq' = Set(vreq, v, [pc |-> "done",
                                     res |-> ReviewRes(500, "Failed to create review", {})])
            /\ UNCHANGED product_reviews
       ELSE LET review == ReviewRow(v, vreq[v].body.product_id, vreq[v].user,
                                    vreq[v].body.rating)
            IN  /\ product_reviews' = product_reviews \cup {review}
                /\ vreq' = Set(vreq, v, [pc |-> "done",
                              res |-> ReviewRes(201, "Review created successfully", {review})])
  /\ UNCHANGED <<store, creq, areq, treq, emails, broadcasts, nreq, sockets, oreq>>

CreateReview(v) ==
  \/ CreateReview_FindProduct(v)
  \/ CreateReview_FindExisting(v)
  \/ CreateReview_Insert(v)

\* ================================================================ inputs
StockLevels == 0..MaxStock

\* Order-creation bodies of the order flow: one line, the two lines of the
\* scenario (quantity 1 and quantity 2), a line whose product the store does
\* not know, a line whose quantity is negative (no check refuses it), and a
\* body without items.
MainLists ==
  {<<Item("p1", 1)>>, <<Item("p1", 1), Item("p2", MaxQty)>>, <<Item(GhostProduct, 1)>>}

MainBodies ==
  {Body(ItemList(l), AddrFields, GoodAmount) : l \in MainLists \cup {<<Item("p1", -1)>>}}
    \cup {Body(NoItems, AddrFields, GoodAmount)}

TrackBodies == {Body(ItemList(l), AddrFields, GoodAmount) : l \in MainLists}
OneBody == {Body(ItemList(<<Item("p1", 1)>>), AddrFields, GoodAmount)}

MainChanges ==
  {StatusChange(o, "shipped", Null, "TRK123", TRUE) : o \in {"r1", GhostOrder}}

\* ================================================================= state
IdleCreate ==
  [pc |-> "idle", body |-> Body(NoItems, {}, NoAmount), orderNumber |-> Null,
   order |-> {}, createdItems |-> {}, i |-> 0,
   product |-> [found |-> FALSE, id |-> Null, stock |-> 0], res |-> NoRes]

IdleStatus ==
  [pc |-> "idle", in |-> StatusChange(GhostOrder, Null, Null, Null, FALSE),
   order |-> {}, updatedOrder |-> {}, res |-> NoRes]

IdleTrack ==
  [pc |-> "idle", route |-> Null, orderNumber |-> Null, email |-> Null,
   orderId |-> Null, res |-> NoRes]

IdleNotes == [pc |-> "idle", orderId |-> Null, notes |-> Null, res |-> NoRes]

IdleReview ==
  [pc |-> "idle", user |-> Null, body |-> ReviewBody(Null, 0),
   res |-> ReviewRes(0, Null, {})]

IdleRead ==
  [pc |-> "idle", route |-> Null, user |-> Null, orderId |-> Null,
   res |-> ReadRes(0, Null, <<>>)]

Off(req) == [req EXCEPT !.pc = "off"]

\* No review, no create-review request and no request for a user's orders.
NoReads == oreq = [g \in Readers |-> Off(IdleRead)]
Quiet ==
  /\ product_reviews = {}
  /\ vreq = [v \in Reviewers |-> Off(IdleReview)]
  /\ NoReads

\* No notes request and no socket client.
NoOthers ==
  /\ nreq = [n \in NoteRequests |-> Off(IdleNotes)]
  /\ sockets = [s \in Sockets |-> Unconnected]

\* An empty store, products in stock, no request started yet.
InitStore ==
  /\ orders = <<>>
  /\ order_items = {}
  /\ history = <<>>
  /\ stock \in {st \in [Products -> StockLevels] : st["p2"] = MaxStock}
  /\ now = 1
  /\ emails = {}
  /\ broadcasts = <<>>

Init ==
  /\ InitStore
  /\ Quiet
  /\ NoOthers
  /\ creq = [r \in Creators |-> IdleCreate]
  /\ areq = [a \in Admins |-> IF a = "a1" THEN IdleStatus ELSE Off(IdleStatus)]
  /\ treq = [t \in Trackers |-> Off(IdleTrack)]

\* Two concurrent POST /orders requests and one status transition.  The first
\* request carries any body of the order flow; the second carries the one-line
\* body for p1, which is the request that competes for the same stock.
Next ==
  \/ \E body \in MainBodies, number \in OrderNumbers :
       CreateOrder_Validate("r1", body, number)
  \/ \E body \in OneBody, number \in OrderNumbers :
       CreateOrder_Validate("r2", body, number)
  \/ \E r \in Creators : CreateOrder(r, {"sent"}, Reliable)
  \/ \E a \in Admins, in \in MainChanges : UpdateStatus_Validate(a, in)
  \/ \E a \in Admins : UpdateStatus(a, {"sent"}, Reliable)

Spec == Init /\ [][Next]_vars

\* ---- validation: r1 sends any body, r2 places an order beside it
ItemInputs ==
  {NoItems, NotAList, ItemList(<<>>), ItemList(<<Item("p1", 1)>>),
   ItemList(<<Item(GhostProduct, 1)>>)}
AmountInputs == {NoAmount, Amount(0), Amount(-5), GoodAmount, TextAmount}
AllBodies ==
  {Body(items, addr, total) :
     items \in ItemInputs, addr \in SUBSET AddrFields, total \in AmountInputs}

InitValidate ==
  /\ InitStore
  /\ Quiet
  /\ NoOthers
  /\ stock["p1"] = MaxStock
  /\ creq = [r \in Creators |-> IdleCreate]
  /\ areq = [a \in Admins |-> Off(IdleStatus)]
  /\ treq = [t \in Trackers |-> Off(IdleTrack)]

NextValidate ==
  \/ \E body \in AllBodies : CreateOrder_Validate("r1", body, "ORD-1")
  \/ \E body \in OneBody : CreateOrder_Validate("r2", body, "ORD-2")
  \/ \E r \in Creators : CreateOrder(r, SendOutcomes, Reliable)

SpecValidate == InitValidate /\ [][NextValidate]_vars

\* ---- status transitions: a1 sends any change, a2 a change of its own,
\* while r1 places the order they name
AllChanges ==
  {StatusChange(o, s, Null, t, n) :
     o \in {"r1", GhostOrder},
     s \in validStatuses \cup {Null, "refunded"},
     t \in TrackingNumbers \cup {Null},
     n \in BOOLEAN}
OtherChanges ==
  {StatusChange(o, "delivered", "Handed over", "TRK456", FALSE) : o \in {"r1", GhostOrder}}

InitStatus ==
  /\ InitStore
  /\ Quiet
  /\ NoOthers
  /\ stock["p1"] = MaxStock
  /\ creq = [r \in Creators |-> IF r = "r1" THEN IdleCreate ELSE Off(IdleCreate)]
  /\ areq = [a \in Admins |-> IdleStatus]
  /\ treq = [t \in Trackers |-> Off(IdleTrack)]

NextStatus ==
  \/ \E body \in TrackBodies : CreateOrder_Validate("r1", body, "ORD-1")
  \/ CreateOrder("r1", {"sent"}, Reliable)
  \/ \E in \in AllChanges : UpdateStatus_Validate("a1", in)
  \/ \E in \in OtherChanges : UpdateStatus_Validate("a2", in)
  \/ \E a \in Admins : UpdateStatus(a, SendOutcomes, Reliable)

SpecStatus == InitStatus /\ [][NextStatus]_vars

\* ---- tracking: t1 looks up any number with any e-mail, while r1 places an
\* order, a1 ships it, and the store holds an order that has no owning user
\* (orders.user_id is nullable)
EmailInputs == {Null, "Ann@shop.io", "ann@shop.io", "ANN@SHOP.IO", "bob@shop.io"}
NumberInputs == {"ORD-1", SeedNumber, GhostNumber}
SeedRow ==
  [id |-> SeedOrder, order_number |-> SeedNumber, user_id |-> Null, total_amount |-> 20,
   status |-> "pending", payment_status |-> "completed", payment_method |-> "card",
   shipping_address |-> formattedShippingAddress(AddrFields),
   tracking_number |-> Null, notes |-> Null, created_at |-> 0, updated_at |-> 0]
SeedEntry ==
  [order_id |-> SeedOrder, status |-> "pending", comment |-> "Order placed successfully",
   updated_by |-> Null, created_at |-> 0]
InitTrack ==
  /\ orders = (SeedOrder :> SeedRow)
  /\ order_items = orderItems(SeedOrder, <<Item("p2", 1)>>)
  /\ history = <<SeedEntry>>
  /\ stock = [p \in Products |-> MaxStock]
  /\ now \in 1..TicksPerMs
  /\ NoOthers
  /\ Quiet
  /\ emails = {}
  /\ broadcasts = <<>>
  /\ creq = [r \in Creators |-> IF r = "r1" THEN IdleCreate ELSE Off(IdleCreate)]
  /\ areq = [a \in Admins |-> IF a = "a1" THEN IdleStatus ELSE Off(IdleStatus)]
  /\ treq = [t \in Trackers |-> IdleTrack]

NextTrack ==
  \/ \E body \in TrackBodies : CreateOrder_Validate("r1", body, "ORD-1")
  \/ CreateOrder("r1", {"sent"}, Reliable)
  \/ \E in \in MainChanges : UpdateStatus_Validate("a1", in)
  \/ UpdateStatus("a1", {"sent"}, Reliable)
  \/ \E t \in Trackers, n \in NumberInputs, e \in EmailInputs : TrackOrder(t, n, e)
  \/ \E t \in Trackers, n \in NumberInputs, e \in EmailInputs : TrackUpdates_Verify(t, n, e)
  \/ \E t \in Trackers : TrackUpdates_Fetch(t)

SpecTrack == InitTrack /\ [][NextTrack]_vars

\* ---- the life of an order's row: r1 and r2 place orders for which the same
\* order number was drawn, a1 ships r1's order, n1 writes a note on it, t1
\* looks it up
NoteTexts == {"Call before delivery", Null}
NoteTargets == {"r1", GhostOrder}
FrameChanges == {StatusChange("r1", "shipped", Null, "TRK123", TRUE)}
FrameBodies ==
  {Body(ItemList(l), AddrFields, GoodAmount) : l \in {<<Item("p1", 1)>>, <<Item(GhostProduct, 1)>>}}

InitFrame ==
  /\ InitStore
  /\ Quiet
  /\ stock["p1"] = MaxStock
  /\ creq = [r \in Creators |-> IdleCreate]
  /\ areq = [a \in Admins |-> IF a = "a1" THEN IdleStatus ELSE Off(IdleStatus)]
  /\ treq = [t \in Trackers |-> IdleTrack]
  /\ nreq = [n \in NoteRequests |-> IdleNotes]
  /\ sockets = [s \in Sockets |-> Unconnected]

NextFrame ==
  \/ \E body \in FrameBodies : CreateOrder_Validate("r1", body, "ORD-1")
  \/ \E body \in OneBody : CreateOrder_Validate("r2", body, "ORD-1")
  \/ \E r \in Creators : CreateOrder(r, {"sent"}, Reliable)
  \/ \E in \in FrameChanges : UpdateStatus_Validate("a1", in)
  \/ UpdateStatus("a1", {"sent"}, Reliable)
  \/ \E n \in NoteRequests, o \in NoteTargets, notes \in NoteTexts : UpdateNotes(n, o, notes)
  \/ \E t \in Trackers : TrackOrder(t, "ORD-1", "ann@shop.io")

SpecFrame == InitFrame /\ [][NextFrame]_vars

\* ---- mails: r1 places an order and a1 ships it, with or without a mail to
\* the customer, and every send may succeed, return an error or throw
MailChanges ==
  {StatusChange("r1", "shipped", "On its way", "TRK123", n) : n \in BOOLEAN}

InitMail ==
  /\ InitStore
  /\ Quiet
  /\ NoOthers
  /\ stock["p1"] = MaxStock
  /\ creq = [r \in Creators |-> IF r = "r1" THEN IdleCreate ELSE Off(IdleCreate)]
  /\ areq = [a \in Admins |-> IF a = "a1" THEN IdleStatus ELSE Off(IdleStatus)]
  /\ treq = [t \in Trackers |-> Off(IdleTrack)]

NextMail ==
  \/ \E body \in TrackBodies : CreateOrder_Validate("r1", body, "ORD-1")
  \/ CreateOrder("r1", SendOutcomes, Reliable)
  \/ \E in \in MailChanges : UpdateStatus_Validate("a1", in)
  \/ UpdateStatus("a1", SendOutcomes, Reliable)

SpecMail == InitMail /\ [][NextMail]_vars

\* ---- broadcasts: r1 places an order, a1 ships it and a2 delivers it, while
\* two socket clients connect, join and leave the rooms of two order ids
RoomTargets == {"r1", "r2"}
ShipChanges == {StatusChange("r1", "shipped", "On its way", "TRK123", TRUE)}
DeliverChanges == {StatusChange("r1", "delivered", Null, Null, FALSE)}

InitBroadcast ==
  /\ InitStore
  /\ Quiet
  /\ stock["p1"] = MaxStock
  /\ creq = [r \in Creators |-> IF r = "r1" THEN IdleCreate ELSE Off(IdleCreate)]
  /\ areq = [a \in Admins |-> IdleStatus]
  /\ treq = [t \in Trackers |-> Off(IdleTrack)]
  /\ nreq = [n \in NoteRequests |-> Off(IdleNotes)]
  /\ sockets = [s \in Sockets |-> Unconnected]

NextBroadcast ==
  \/ \E body \in FrameBodies : CreateOrder_Validate("r1", body, "ORD-1")
  \/ CreateOrder("r1", {"sent"}, Reliable)
  \/ \E in \in ShipChanges : UpdateStatus_Validate("a1", in)
  \/ \E in \in DeliverChanges : UpdateStatus_Validate("a2", in)
  \/ \E a \in Admins : UpdateStatus(a, {"sent"}, Reliable)
  \/ \E s \in Sockets : Connect(s)
  \/ \E s \in Sockets, o \in RoomTargets : JoinOrder(s, o)
  \/ \E s \in Sockets, o \in RoomTargets : LeaveOrder(s, o)
  \/ \E s \in Sockets : Disconnect(s)

SpecBroadcast == InitBroadcast /\ [][NextBroadcast]_vars

\* ---- the transition graph: r1 places an order, then a1 and a2 each move
\* it to any status of the enum, in either order
GraphChanges == {StatusChange("r1", s, Null, Null, TRUE) : s \in validStatuses}

InitGraph ==
  /\ InitStore
  /\ Quiet
  /\ NoOthers
  /\ stock["p1"] = MaxStock
  /\ creq = [r \in Creators |-> IF r = "r1" THEN IdleCreate ELSE Off(IdleCreate)]
  /\ areq = [a \in Admins |-> IdleStatus]
  /\ treq = [t \in Trackers |-> Off(IdleTrack)]

NextGraph ==
  \/ \E body \in FrameBodies : CreateOrder_Validate("r1", body, "ORD-1")
  \/ CreateOrder("r1", {"sent"}, Reliable)
  \/ \E a \in Admins, in \in GraphChanges : UpdateStatus_Validate(a, in)
  \/ \E a \in Admins : UpdateStatus(a, {"sent"}, Reliable)

SpecGraph == InitGraph /\ [][NextGraph]_vars

\* ---- the link of the confirmation mail: r1 places an order whose shipping
\* address has no e-mail, the account's e-mail in capitals, or the e-mail
\* of somebody else, and t1 follows the link of the mail
LinkEmails == {Null, "ANN@SHOP.IO", "bob@shop.io"}
LinkBodies == {WithEmail(b, e) : b \in TrackBodies, e \in LinkEmails}

InitLink ==
  /\ InitStore
  /\ Quiet
  /\ NoOthers
  /\ stock["p1"] = MaxStock
  /\ creq = [r \in Creators |-> IF r = "r1" THEN IdleCreate ELSE Off(IdleCreate)]
  /\ areq = [a \in Admins |-> Off(IdleStatus)]
  /\ treq = [t \in Trackers |-> IdleTrack]

NextLink ==
  \/ \E body \in LinkBodies : CreateOrder_Validate("r1", body, "ORD-1")
  \/ CreateOrder("r1", SendOutcomes, Reliable)
  \/ \E t \in Trackers : FollowLink(t, "r1")

SpecLink == InitLink /\ [][NextLink]_vars

\* ---- a user's orders: r1 (of u1) and r2 (of u2) place orders, a1 ships
\* r2's order, and u1 lists the orders (g1) and asks for an order by its
\* id (g2)
ReadTargets == {"r1", "r2", GhostOrder, BadOrderId}
ReadChanges == {StatusChange("r2", "shipped", "On its way", "TRK123", TRUE)}

InitRead ==
  /\ InitStore
  /\ NoOthers
  /\ stock["p1"] = MaxStock
  /\ creq = [r \in Creators |-> IdleCreate]
  /\ areq = [a \in Admins |-> IF a = "a1" THEN IdleStatus ELSE Off(IdleStatus)]
  /\ treq = [t \in Trackers |-> Off(IdleTrack)]
  /\ product_reviews = {}
  /\ vreq = [v \in Reviewers |-> Off(IdleReview)]
  /\ oreq = [g \in Readers |-> IdleRead]

NextRead ==
  \/ \E body \in FrameBodies : CreateOrder_Validate("r1", body, "ORD-1")
  \/ \E body \in OneBody : CreateOrder_Validate("r2", body, "ORD-2")
  \/ \E r \in Creators : CreateOrder(r, {"sent"}, Reliable)
  \/ \E in \in ReadChanges : UpdateStatus_Validate("a1", in)
  \/ UpdateStatus("a1", {"sent"}, Reliable)
  \/ MyOrders("g1", "u1")
  \/ \E o \in ReadTargets : GetOrder("g2", "u1", o)

SpecRead == InitRead /\ [][NextRead]_vars

\* ---- answers: r1 places an order and a1 changes its status while any call
\* of the store may return an error and any send of a mail may fail.  The
\* event loop runs the continuation of every call that has returned, so a
\* handler that can take a step takes one (weak fairness); that a request
\* arrives at all is up to its sender.
AnswerBodies ==
  {Body(ItemList(l), AddrFields, GoodAmount) : l \in MainLists}
    \cup {Body(NoItems, AddrFields, GoodAmount), Body(ItemList(<<Item("p1", 1)>>), AddrFields, TextAmount)}
AnswerChanges ==
  {StatusChange(o, s, Null, Null, n) :
     o \in {"r1", GhostOrder}, s \in {"shipped", Null}, n \in BOOLEAN}

InitAnswer ==
  /\ InitStore
  /\ Quiet
  /\ NoOthers
  /\ stock["p1"] = MaxStock
  /\ creq = [r \in Creators |-> IF r = "r1" THEN IdleCreate ELSE Off(IdleCreate)]
  /\ areq = [a \in Admins |-> IF a = "a1" THEN IdleStatus ELSE Off(IdleStatus)]
  /\ treq = [t \in Trackers |-> Off(IdleTrack)]

NextAnswer ==
  \/ \E body \in AnswerBodies : CreateOrder_Validate("r1", body, "ORD-1")
  \/ CreateOrder("r1", SendOutcomes, StoreResults)
  \/ \E in \in AnswerChanges : UpdateStatus_Validate("a1", in)
  \/ UpdateStatus("a1", SendOutcomes, StoreResults)

SpecAnswer ==
  /\ InitAnswer
  /\ [][NextAnswer]_vars
  /\ WF_vars(CreateOrder("r1", SendOutcomes, StoreResults))
  /\ WF_vars(UpdateStatus("a1", SendOutcomes, StoreResults))

\* ---- reviews: v1 and v2 send any review as any user, v3 sends u1's
\* review of p1
ReviewProducts == {"p1", GhostProduct, Null}
Ratings == {0, 5, 6}
ReviewBodies == {ReviewBody(p, n) : p \in ReviewProducts, n \in Ratings}

InitReview ==
  /\ InitStore
  /\ NoOthers
  /\ stock["p1"] = MaxStock
  /\ creq = [r \in Creators |-> Off(IdleCreate)]
  /\ areq = [a \in Admins |-> Off(IdleStatus)]
  /\ treq = [t \in Trackers |-> Off(IdleTrack)]
  /\ product_reviews = {}
  /\ vreq = [v \in Reviewers |-> IdleReview]
  /\ NoReads

NextReview ==
  \/ \E v \in {"v1", "v2"}, u \in Users, body \in ReviewBodies :
       CreateReview_Validate(v, u, body)
  \/ CreateReview_Validate("v3", "u1", ReviewBody("p1", 5))
  \/ \E v \in Reviewers : CreateReview(v)

SpecReview == InitReview /\ [][NextReview]_vars

\* ================================================================ claims
Responded(r) == creq[r].res.status # 0
Created(r) == creq[r].res.status = 201
InputItems(r) == creq[r].body.items.list

\* C1: every order creation answered with success returns an order whose
\* order number is non-empty and differs from that of every other stored
\* order, whose status is "pending", and which carries exactly one line per
\* input item, each bound to the new order's id.
C1_CreatedOrderShape ==
  \A r \in Creators : Created(r) =>
    /\ Cardinality(creq[r].res.order) = 1
    /\ \A row \in creq[r].res.order :
         /\ row.order_number \in OrderNumbers
         /\ row.status = "pending"
         /\ \A o \in DOMAIN orders : o # row.id => orders[o].order_number # row.order_number
         /\ Cardinality(creq[r].res.order_items) = Len(InputItems(r))
         /\ \A l \in creq[r].res.order_items : l.order_id = row.id
         /\ \A i \in 1..Len(InputItems(r)) :
              \E l \in creq[r].res.order_items :
                /\ l.id = <<row.id, i>>
                /\ l.product_id = InputItems(r)[i].id
                /\ l.quantity = InputItems(r)[i].quantity

\* Both requests were answered with success, one of them for two items.
C1_Witness ==
  /\ \A r \in Creators : Created(r)
  /\ \E r \in Creators : Len(InputItems(r)) = 2

\* C2: an order that has any history entries has the system-generated
\* "pending" entry (updated_by = null) as its first one, in every reachable
\* state, also when a status transition interleaves with the creation.
C2_FirstEntryIsInitial ==
  \A o \in DOMAIN orders :
    HistoryOf(o) # <<>> =>
      /\ Head(HistoryOf(o)).status = "pending"
      /\ Head(HistoryOf(o)).updated_by = Null

\* The item the stock loop of request r is at.
CurrentItem(r) == InputItems(r)[creq[r].i]

C3_StockStep ==
  /\ \A p \in Products : stock[p] >= 0 /\ stock'[p] >= 0
  /\ \A r \in Creators :
       (creq[r].pc = "read_stock" /\ creq'[r] # creq[r]) =>
         /\ stock' = stock
         /\ IF stock[CurrentItem(r).id] < CurrentItem(r).quantity
              THEN creq'[r].pc # "update_stock"
              ELSE /\ creq'[r].pc = "update_stock"
                   /\ creq'[r].product.stock = stock[CurrentItem(r).id]
  /\ \A r \in Creators :
       (creq[r].pc = "update_stock" /\ creq'[r] # creq[r]) =>
         stock' = [stock EXCEPT ![CurrentItem(r).id] =
                     creq[r].product.stock - CurrentItem(r).quantity]
  /\ stock' # stock => \E r \in Creators : creq[r].pc = "update_stock" /\ creq'[r] # creq[r]

\* C3: stock is never negative; a line whose quantity exceeds the stock read
\* leaves the stock as it was, any other line sets the stock to the stock
\* read minus the quantity, and nothing else changes a stock.
C3_StockNeverNegative == [][C3_StockStep]_vars

\* Both orders named p1 and were answered; one decrement emptied the stock
\* and the other request found too little stock.
C3_Witness ==
  /\ \A r \in Creators : Created(r) /\ InputItems(r)[1].id = "p1"
  /\ stock["p1"] = 0
  /\ \E r \in Creators : ~creq[r].product.found

\* Request r has written a decremented stock (line 124) for the stock it read.
Decremented(r) ==
  /\ creq[r].pc \in {"respond", "email_customer", "email_operator", "done"}
  /\ creq[r].product.found

\* C4: of two concurrent requests that each order the last unit of a product
\* whose stock is 1, at most one performs the stock update.
C4_AtMostOneDecrement ==
  ~ /\ \A r \in Creators : InputItems(r) = <<Item("p1", 1)>>
    /\ \A r \in Creators : Decremented(r) /\ creq[r].product.stock = 1

C6_Refused(b) ==
  \/ b.items.kind # "array"
  \/ b.items.list = <<>>
  \/ \E f \in {"address", "city", "state", "zipCode", "country", "phoneCode", "phone"} :
       f \notin b.shipping_address
  \/ b.total_amount.kind = "absent"
  \/ b.total_amount.kind = "number" /\ b.total_amount.val <= 0

C6_Step ==
  \A r \in Creators :
    /\ (creq[r].pc = "idle" /\ creq'[r].pc # "idle" /\ C6_Refused(creq'[r].body)) =>
         /\ creq'[r].pc = "done"
         /\ creq'[r].res.status = 400
         /\ creq'[r].res.error # Null
         /\ UNCHANGED <<orders, order_items, history, stock, emails>>
    /\ (creq[r].pc \notin {"idle", "off"} /\ C6_Refused(creq[r].body)) =>
         /\ creq'[r] = creq[r]
         /\ ~Exists(r) /\ ItemsOf(r) = {} /\ HistoryOf(r) = <<>>
         /\ \A m \in emails : m.req # r

\* C6: a refused order creation is answered with a validation error and
\* creates no order, line or history entry, changes no stock, sends no mail.
C6_RefusedCreatesNothing == [][C6_Step]_vars

\* r1 was refused for its phone number while r2's order is in the store.
C6_Witness ==
  /\ creq["r1"].res.status = 400
  /\ creq["r1"].res.error = "Phone number with country code is required"
  /\ Exists("r2") /\ HistoryOf("r2") # <<>> /\ emails # {}

\* The history entry the transition of request a writes.
StatusEntryOf(a, h) ==
  /\ h.order_id = areq[a].in.orderId
  /\ h.status = areq[a].in.status
  /\ h.updated_by = adminId[a]

C7_Step ==
  \A a \in Admins :
    LET o == areq[a].in.orderId
        s == areq[a].in.status
        t == areq[a].in.tracking_number
    IN  /\ (areq[a].pc = "update" /\ areq'[a].pc # "update" /\ Exists(o) /\ t # Null) =>
             /\ s \in validStatuses
             /\ orders'[o].status = s
             /\ orders'[o].tracking_number = t
             /\ areq'[a].updatedOrder = {orders'[o]}
        /\ (areq[a].pc = "history" /\ areq'[a].pc # "history" /\ Exists(o)) =>
             /\ Len(HistoryOf(o)') = Len(HistoryOf(o)) + 1
             /\ SubSeq(HistoryOf(o)', 1, Len(HistoryOf(o))) = HistoryOf(o)
             /\ StatusEntryOf(a, HistoryOf(o)'[Len(HistoryOf(o)')])
        /\ (areq'[a].res.status = 200 /\ t # Null) =>
             \A row \in areq'[a].res.order : row.status = s /\ row.tracking_number = t

Emitters ==
  {a \in Admins : areq[a].pc \in {"email", "done"} /\ areq[a].res.status \in {0, 200}}

C8_Step ==
  \A a \in Admins :
    /\ (areq[a].pc = "idle" /\ areq'[a].pc # "idle"
          /\ areq'[a].in.status \notin validStatuses) =>
         /\ areq'[a].pc = "done" /\ areq'[a].res.status = 400
         /\ UNCHANGED <<orders, order_items, history, stock, emails, broadcasts>>
    /\ (areq[a].pc = "load" /\ areq'[a].pc # "load" /\ ~Exists(areq[a].in.orderId)) =>
         /\ areq'[a].pc = "done" /\ areq'[a].res.status = 404
         /\ UNCHANGED <<orders, order_items, history, stock, emails, broadcasts>>
    /\ areq[a].res.status \in {400, 404} =>
         /\ areq'[a] = areq[a]
         /\ \A i \in 1..Len(history) : history[i].updated_by # adminId[a]
         /\ Len(broadcasts) = Cardinality(Emitters)
         /\ \A m \in emails : m.req # a

\* C8: a transition of an order that does not exist is answered not-found,
\* one with a missing status or a status outside the enum is answered with a
\* validation error; neither changes an order or a history, broadcasts or
\* sends a mail.
C8_RefusedTransitionChangesNothing == [][C8_Step]_vars

\* a1 was refused for its status and a2 found no order, while r1's order and
\* its history are in the store.
C8_Witness ==
  /\ areq["a1"].res.status = 400 /\ areq["a1"].res.error = "Invalid status"
  /\ areq["a2"].res.status = 404
  /\ Exists("r1") /\ HistoryOf("r1") # <<>>

\* The supplied e-mail is not that of the order's owning user (or there is none).
Mismatch(o, email) ==
  \/ orders[o].user_id \notin Users
  \/ toLowerCase(userEmail[orders[o].user_id]) # toLowerCase(email)

NoOrderData(res) ==
  res.order = {} /\ res.order_items = {} /\ res.order_status_history = <<>>

C9_Step ==
  \A t \in Trackers :
    (treq[t].pc = "idle" /\ treq'[t].pc # "idle") =>
      LET found == {o \in DOMAIN orders : orders[o].order_number = treq'[t].orderNumber}
      IN  (treq'[t].email # Null /\ found # {}
             /\ \A o \in found : Mismatch(o, treq'[t].email)) =>
            /\ treq'[t].pc = "done"
            /\ treq'[t].res.status = 403
            /\ NoOrderData(treq'[t].res)

\* C9: a lookup (either route) with the number of a stored order and an
\* e-mail that is not its owning user's, or for an order with no owning user,
\* is answered forbidden and carries no order, line or history.
C9_MismatchIsForbidden == [][C9_Step]_vars

\* r1's order, complete and shipped, was asked for with another user's
\* e-mail and the lookup was answered 403.
C9_Witness ==
  \E t \in Trackers :
    /\ treq[t].pc = "done" /\ treq[t].res.status = 403
    /\ treq[t].orderNumber = "ORD-1" /\ treq[t].email = "bob@shop.io"
    /\ Exists("r1") /\ Len(HistoryOf("r1")) = 2

C10_Step ==
  \A t \in Trackers :
    (treq[t].pc = "idle" /\ treq'[t].pc # "idle") =>
      ((treq'[t].email # Null
          /\ \A o \in DOMAIN orders : orders[o].order_number # treq'[t].orderNumber) =>
         /\ treq'[t].pc = "done"
         /\ treq'[t].res.status = 404
         /\ NoOrderData(treq'[t].res))

\* C10: a lookup (either route) with an order number that no stored order
\* carries is answered not-found, whatever e-mail it supplies.
C10_UnknownNumberIsNotFound == [][C10_Step]_vars

\* The number of r1's order is unknown before the order is inserted and
\* after it was rolled back; here it was asked for with the owner's e-mail.
C10_Witness ==
  \E t \in Trackers :
    /\ treq[t].res.status = 404
    /\ treq[t].orderNumber = "ORD-1" /\ treq[t].email = "ann@shop.io"
    /\ creq["r1"].pc # "idle"


\* The e-mail strings of the model, grouped by their letters without case.
CaseClasses ==
  {{"Ann@shop.io", "ann@shop.io", "ANN@SHOP.IO"}, {"bob@shop.io", "Bob@shop.io"}}
EqualUpToCase(e1, e2) == e1 = e2 \/ \E c \in CaseClasses : e1 \in c /\ e2 \in c

\* The rows of a sequence, counted.
RowsOf(seq) == [h \in {seq[i] : i \in 1..Len(seq)} |->
                  Cardinality({i \in 1..Len(seq) : seq[i] = h})]

C11_Step ==
  \A t \in Trackers :
    (treq[t].pc = "idle" /\ treq'[t].pc # "idle" /\ treq'[t].route = "track") =>
      \A o \in DOMAIN orders :
        (/\ orders[o].order_number = treq'[t].orderNumber
         /\ orders[o].user_id \in Users
         /\ treq'[t].email # Null
         /\ EqualUpToCase(userEmail[orders[o].user_id], treq'[t].email)) =>
          /\ treq'[t].pc = "done"
          /\ treq'[t].res.status = 200
          /\ treq'[t].res.order = {orders[o]}
          /\ treq'[t].res.order_items = ItemsOf(o)
          /\ RowsOf(treq'[t].res.order_status_history) = RowsOf(HistoryOf(o))

\* C11: a tracking lookup by the number of a stored order and an e-mail that
\* equals the e-mail of the order's owning user up to letter case is answered
\* 200 with the order row, its lines and the entries of its status history.
C11_CaseInsensitiveLookup == [][C11_Step]_vars

\* r1's shipped order was looked up with its owner's e-mail in capitals
\* (the owner's row holds "Ann@shop.io") and came back with lines and history.
C11_Witness ==
  \E t \in Trackers :
    /\ treq[t].route = "track" /\ treq[t].res.status = 200
    /\ treq[t].orderNumber = "ORD-1" /\ treq[t].email = "ANN@SHOP.IO"
    /\ \A row \in treq[t].res.order : row.id = "r1" /\ row.status = "shipped"
    /\ treq[t].res.order_items # {}
    /\ Len(treq[t].res.order_status_history) = 2


\* Ascending by creation time: no entry comes before one created earlier.
Ascending(hist) ==
  \A i, j \in 1..Len(hist) : i < j => hist[i].created_at <= hist[j].created_at

\* C12: the status-history entries that a tracking lookup or the tracking
\* updates query returns are in ascending order of their creation time
\* (created_at), in whatever order the store returned them.
C12_HistoryAscending ==
  \A t \in Trackers :
    treq[t].res.status = 200 => Ascending(treq[t].res.order_status_history)

\* The same for the updates query alone, which lets the store do the ordering.
C12_UpdatesAscending ==
  \A t \in Trackers :
    (treq[t].res.status = 200 /\ treq[t].route = "updates") =>
      Ascending(treq[t].res.order_status_history)


C13_Step ==
  /\ \A o1, o2 \in DOMAIN orders' :
       o1 # o2 => orders'[o1].order_number # orders'[o2].order_number
  /\ \A o \in DOMAIN orders \cap DOMAIN orders' :
       orders'[o].order_number = orders[o].order_number

\* C13: no two stored orders share an order number, and no step (of a status
\* transition, a notes update, a stock decrement, a tracking lookup or another
\* creation) changes the order number of an order that is in the store.
C13_OrderNumberUniqueImmutable == [][C13_Step]_vars

\* Both requests drew the same number: r2 was refused by the store, and r1's
\* order, shipped, annotated and looked up, still carries the number.
C13_Witness ==
  /\ creq["r1"].orderNumber = "ORD-1" /\ creq["r2"].orderNumber = "ORD-1"
  /\ creq["r2"].res.status = 500 /\ ~Exists("r2")
  /\ Exists("r1") /\ orders["r1"].order_number = "ORD-1"
  /\ creq["r1"].res.status = 201
  /\ orders["r1"].status = "shipped" /\ orders["r1"].notes # Null
  /\ treq["t1"].res.status = 200
  /\ stock["p1"] < MaxStock


C14_Step ==
  /\ Len(history') >= Len(history)
  /\ SubSeq(history', 1, Len(history)) = history

\* C14: the status history only grows: every step leaves the entries that
\* exist as they are and in place, and at most appends to them, also when a
\* compensating delete of an order races with a status transition of it.
C14_HistoryOnlyGrows == [][C14_Step]_vars


OrderFields ==
  {"id", "order_number", "user_id", "total_amount", "status", "payment_status",
   "payment_method", "shipping_address", "tracking_number", "notes", "created_at",
   "updated_at"}
SameExcept(row1, row2, fields) == \A f \in OrderFields \ fields : row1[f] = row2[f]

\* The step is the update of a status transition of order o, or of its notes.
TransitionOf(o) ==
  \E a \in Admins :
    areq[a].pc = "update" /\ areq'[a].pc # "update" /\ areq[a].in.orderId = o
NotesUpdateOf(o) ==
  \E n \in NoteRequests : nreq[n].pc = "idle" /\ nreq'[n].pc = "done" /\ nreq'[n].orderId = o

\* The lines of order o have been inserted.
LinesInserted(o) == o \in Creators /\ creq[o].pc \notin {"insert_items", "rollback"}

\* The frame of a step on the orders that are in the store before and after
\* it, given the fields that a transition or a notes update may write besides
\* status and tracking_number, or notes.
FrameStep(also) ==
  \A o \in DOMAIN orders \cap DOMAIN orders' :
    /\ TransitionOf(o) =>
         SameExcept(orders[o], orders'[o], {"status", "tracking_number"} \cup also)
    /\ NotesUpdateOf(o) => SameExcept(orders[o], orders'[o], {"notes"} \cup also)
    /\ (~TransitionOf(o) /\ ~NotesUpdateOf(o)) => orders'[o] = orders[o]
    /\ LinesInserted(o) => ItemsOf(o)' = ItemsOf(o)

\* C15 as stated: status, tracking_number and notes are the only fields of a
\* stored order that a step changes; a transition changes nothing but status
\* and tracking_number, a notes update nothing but notes, and the lines of an
\* order never change.
C15_OnlyStatusTrackingNotes == [][FrameStep({})]_vars

\* C15, amended: the same, except that every update of the row (a transition
\* or a notes update) also refreshes its updated_at; user id, total amount,
\* payment status, shipping address, order number and the lines never change.
C15_FrameButUpdatedAt == [][FrameStep({"updated_at"})]_vars

\* r1's order was placed, shipped with a tracking number and annotated, the
\* last update later than its creation; it still has its user, total,
\* payment status, address and its one line.
C15_Witness ==
  /\ creq["r1"].res.status = 201 /\ Exists("r1")
  /\ orders["r1"].status = "shipped" /\ orders["r1"].tracking_number = "TRK123"
  /\ orders["r1"].notes = "Call before delivery"
  /\ orders["r1"].updated_at > orders["r1"].created_at
  /\ orders["r1"].user_id = "u1" /\ orders["r1"].total_amount = 20
  /\ orders["r1"].payment_status = "completed"
  /\ orders["r1"].shipping_address = formattedShippingAddress(AddrFields)
  /\ Cardinality(ItemsOf("r1")) = 1


\* The response of the request that a mail belongs to.
ResOf(req) == IF req \in Creators THEN creq[req].res ELSE areq[req].res

C16_Step ==
  /\ \A r \in Creators :
       (creq[r].pc \in {"email_customer", "email_operator"} /\ creq'[r] # creq[r]) =>
         /\ UNCHANGED <<orders, order_items, history, stock>>
         /\ creq[r].res.status = 201
         /\ creq'[r].res = creq[r].res
  /\ \A a \in Admins :
       (areq[a].pc = "email" /\ areq'[a] # areq[a]) =>
         /\ UNCHANGED <<orders, order_items, history, stock>>
         /\ areq'[a].res =
              Res(200, "Order status updated successfully", areq[a].updatedOrder, {}, <<>>)
  /\ \A m \in emails :
       m.outcome # "sent" => ResOf(m.req)' = ResOf(m.req) /\ ResOf(m.req).status \in {200, 201}

\* C16: a step that sends a mail leaves orders, lines, history and stock as
\* they are and leaves or gives the request its success response (201 for a
\* creation, 200 with the updated order for a transition), whether the send
\* succeeds, returns an error or throws; and the response of a request one
\* of whose mails failed stays that success response.
C16_MailFailureIsSwallowed == [][C16_Step]_vars

\* Both mails of the order failed (the first returned an error, the second
\* threw), the mail of the transition threw, both requests were answered
\* with success, and the order is shipped with its line and two entries.
C16_Witness ==
  /\ Mail("r1", "customer", "error") \in emails
  /\ Mail("r1", "operator", "thrown") \in emails
  /\ Mail("a1", "status", "thrown") \in emails
  /\ creq["r1"].res.status = 201 /\ areq["a1"].res.status = 200
  /\ Exists("r1") /\ orders["r1"].status = "shipped"
  /\ ItemsOf("r1") # {} /\ Len(HistoryOf("r1")) = 2

C17_Step ==
  \A m \in emails' \ emails : ResOf(m.req).status # 0

\* C17: a mail is sent only after the response of its request: at every step
\* that sends a mail of an order creation or of a status transition, the
\* request has already been answered.
C17_MailAfterResponse == [][C17_Step]_vars

\* The same for the mails of order creation alone.
C17_CreationMailAfterResponse ==
  [][\A m \in emails' \ emails : m.req \in Creators => ResOf(m.req).status # 0]_vars


\* The step is the emit of the transition request a.
EmitOf(a) == areq[a].pc = "history" /\ areq'[a].pc # "history"
LastEvent == broadcasts'[Len(broadcasts')]

\* One event per transition that got as far as the emit, which every
\* transition answered 200 did; it goes to the sockets that are in the room
\* of the order at the emit and to no other; no other step delivers anything.
C18_DeliveryStep ==
  /\ \A a \in Admins : EmitOf(a) =>
       /\ broadcasts' = Append(broadcasts, LastEvent)
       /\ LastEvent.orderId = areq[a].in.orderId
       /\ \A s \in Sockets :
            sockets'[s].received =
              IF sockets[s].connected /\ Room(areq[a].in.orderId) \in sockets[s].rooms
                THEN Append(sockets[s].received, LastEvent)
                ELSE sockets[s].received
  /\ (\A a \in Admins : ~EmitOf(a)) =>
       /\ broadcasts' = broadcasts
       /\ \A s \in Sockets : sockets'[s].received = sockets[s].received
  /\ Len(broadcasts') = Cardinality(Emitters')
  /\ \A a \in Admins : areq'[a].res.status = 200 => a \in Emitters'

\* What the event of transition request a is to carry.
C18_EventFields(a, e) ==
  /\ e.orderId = areq[a].in.orderId
  /\ \A row \in areq[a].order : e.orderNumber = row.order_number
  /\ e.status = areq[a].in.status
  /\ e.comment = areq[a].in.comment
  /\ e.trackingNumber = areq[a].in.tracking_number
  /\ e.timestamp = now
  /\ e.updatedBy = adminName[a]

\* C18: a successful status transition of order o emits one event, which
\* carries the order id, the order number, the new status, the comment, the
\* tracking number, the time and the name of the acting administrator, to
\* exactly the sockets that are in o's room at the emit; a socket that left,
\* is in another order's room only or joins later does not receive it, and
\* no other step delivers an event.
C18_EventToRoomMembers ==
  [][C18_DeliveryStep /\ \A a \in Admins : EmitOf(a) => C18_EventFields(a, LastEvent)]_vars

\* The delivery alone, whatever the event says about the actor.
C18_DeliveredToRoomMembersOnly == [][C18_DeliveryStep]_vars

\* s1 was in the room for the first event and left before the second, s2
\* was in the other order's room for the first and joined for the second.
C18_DeliveryWitness ==
  /\ Len(broadcasts) = 2
  /\ sockets["s1"].received = <<broadcasts[1]>>
  /\ sockets["s2"].received = <<broadcasts[2]>>
  /\ sockets["s2"].rooms = {Room("r1"), Room("r2")}
  /\ sockets["s1"].connected /\ sockets["s1"].rooms = {}


C19_Step ==
  \A a \in Admins :
    LET o == areq[a].in.orderId
    IN  /\ (areq[a].pc = "idle" /\ areq'[a].pc # "idle"
              /\ areq'[a].in.status \in validStatuses) => areq'[a].pc = "load"
        /\ (areq[a].pc = "load" /\ areq'[a].pc # "load" /\ Exists(o)) =>
             areq'[a].pc = "update"
        /\ (areq[a].pc = "update" /\ areq'[a].pc # "update" /\ Exists(o)) =>
             /\ orders[o].status \in validStatuses
             /\ areq'[a].pc = "history"
             /\ orders'[o].status = areq[a].in.status
        /\ (areq[a].pc \in {"history", "email"} /\ areq'[a].pc = "done") =>
             /\ areq'[a].res.status = 200
             /\ \A row \in areq'[a].res.order : row.status = areq[a].in.status

\* C19: a transition to any status of the enum is accepted whatever the
\* current status of the order is, the same status and an earlier one
\* included: it passes the validation, finds the order, sets the order's
\* status to the one asked for and is answered 200 with the updated order.
C19_AnyStatusFollowsAny == [][C19_Step]_vars

\* A backward move and a move to the same status: the order was delivered,
\* then set to delivered again, and both requests were answered 200 ...
C19_SameStatusReached ==
  /\ \A a \in Admins : areq[a].res.status = 200 /\ areq[a].in.status = "delivered"
  /\ Exists("r1") /\ Len(HistoryOf("r1")) = 3

\* ... or it was delivered by one administrator and set back to pending by
\* the other, and is pending now.
C19_Witness ==
  /\ \A a \in Admins : areq[a].res.status = 200
  /\ Exists("r1") /\ orders["r1"].status = "pending"
  /\ Len(HistoryOf("r1")) = 3
  /\ HistoryOf("r1")[2].status = "delivered" /\ HistoryOf("r1")[2].updated_by # Null
  /\ HistoryOf("r1")[3].status = "pending" /\ HistoryOf("r1")[3].updated_by # Null


\* Both requests ordered one unit of p1, both passed the check of line 123 on
\* the same stock read, both wrote and both were answered 201.
BothPassedOnSameRead ==
  /\ \A r \in Creators :
       /\ InputItems(r) = <<Item("p1", 1)>>
       /\ Created(r) /\ Decremented(r)
  /\ creq["r1"].product.stock = creq["r2"].product.stock

\* The units of product p on the lines of the orders in the store.
RECURSIVE SumQuantity(_)
SumQuantity(lines) ==
  IF lines = {} THEN 0
  ELSE LET l == CHOOSE x \in lines : TRUE IN l.quantity + SumQuantity(lines \ {l})
Sold(p) == SumQuantity({l \in order_items : l.product_id = p})

\* C20: when two concurrent creations of one unit of the same product both
\* pass the stock check on the same stock read, both succeed and the second
\* write repeats the first: two units are sold and the stock went down by
\* one only, so with one unit available more is sold than there was.
C20_LostStockUpdate ==
  BothPassedOnSameRead =>
    /\ stock["p1"] = creq["r1"].product.stock - 1
    /\ Sold("p1") = 2
    /\ \A r \in Creators : Exists(r) /\ Cardinality(ItemsOf(r)) = 1

\* The interleaving exists: one unit was available, both requests read it
\* before either wrote, both orders stand, two units are sold, the stock is 0.
C20_Witness ==
  /\ BothPassedOnSameRead
  /\ creq["r1"].product.stock = 1
  /\ Sold("p1") = 2 /\ stock["p1"] = 0
  /\ Sold("p1") > creq["r1"].product.stock


\* ---------------------------------------------------------------- C21
\* The stock loop of request r reads, in this step, a product that is not
\* there or whose stock is less than the line's quantity.
ShortLine(r) ==
  /\ creq[r].pc = "read_stock"
  /\ creq'[r] # creq[r]
  /\ \/ CurrentItem(r).id \notin Products
     \/ stock[CurrentItem(r).id] < CurrentItem(r).quantity

NamesNoProduct(r) ==
  \E i \in 1..Len(InputItems(r)) : InputItems(r)[i].id \notin Products

AnsweredNow(r) == creq[r].res.status = 0 /\ creq'[r].res.status # 0

\* The order of r and one line per input item are in the store after the step.
StoredWithLines(r) ==
  /\ r \in DOMAIN orders'
  /\ orderItems(r, InputItems(r)) \subseteq order_items'

C21_ShortStep ==
  \A r \in Creators :
    /\ ShortLine(r) =>
         /\ stock' = stock
         /\ creq'[r].pc \in {"read_stock", "respond"}
         /\ StoredWithLines(r)
    /\ (AnsweredNow(r) /\ creq[r].pc = "respond") =>
         /\ creq'[r].res.status = 201
         /\ creq'[r].res.error = Null
         /\ StoredWithLines(r)

C21_Step ==
  /\ C21_ShortStep
  /\ \A r \in Creators :
       (AnsweredNow(r) /\ Exists(r) /\ NamesNoProduct(r)) =>
         /\ creq'[r].res.status = 201
         /\ StoredWithLines(r)

\* C21: a line whose product has less stock than its quantity, or whose
\* product does not exist, has its decrement skipped: the stock stays as it
\* is, the order and all its lines are still created, and the request is
\* answered with success and no error.
C21_ShortLineSkipped == [][C21_Step]_vars

\* The part for a product that has too little stock: the read leaves the
\* stock alone and moves on to the next line or to the response, and the
\* response after the loop is the success with the order and its lines stored.
C21_LowStockSkipped == [][C21_ShortStep]_vars

\* An order for p1 was answered with success although p1 has no stock, and
\* p1 still has none.
C21_LowStockWitness ==
  \E r \in Creators :
    /\ Created(r)
    /\ InputItems(r)[1].id = "p1"
    /\ InputItems(r)[1].quantity > 0
    /\ stock["p1"] = 0
    /\ \A q \in Creators \ {r} : creq[q].pc = "idle"


\* ---------------------------------------------------------------- C22
C22_Step ==
  \A a \in Admins :
    (areq[a].pc = "update" /\ areq'[a].pc = "history"
       /\ areq[a].in.tracking_number = Null) =>
      LET o == areq[a].in.orderId
      IN  /\ orders'[o].tracking_number = orders[o].tracking_number
          /\ orders'[o].status = areq[a].in.status
          /\ SameExcept(orders[o], orders'[o], {"status", "updated_at"})
          /\ \A row \in areq'[a].updatedOrder :
               row.tracking_number = orders[o].tracking_number

\* C22: a status transition that supplies no tracking number writes the
\* status and leaves the tracking number the order has stored as it is (of
\* the other columns only updated_at moves, by the trigger).
C22_NoTrackingKeepsStored == [][C22_Step]_vars

\* a2 delivered the order with TRK456, then a1 moved it to another status
\* without a tracking number: the order still carries TRK456.
C22_Witness ==
  /\ areq["a1"].res.status = 200
  /\ areq["a1"].in.tracking_number = Null
  /\ areq["a2"].res.status = 200
  /\ Exists("r1")
  /\ orders["r1"].status = areq["a1"].in.status
  /\ orders["r1"].status # "delivered"
  /\ orders["r1"].tracking_number = "TRK456"


\* ---------------------------------------------------------------- C23
Attempted(r, kind) == \E m \in emails : m.req = r /\ m.kind = kind

\* C23: an order creation answered with success whose mail callback is over
\* has attempted both mails, the confirmation to the customer and the
\* notification to the store operator, whatever became of the first send.
C23_BothMailsDispatched ==
  \A r \in Creators :
    (Created(r) /\ creq[r].pc = "done") =>
      Attempted(r, "customer") /\ Attempted(r, "operator")

\* The part that holds: the callback always attempts the confirmation, and
\* it attempts the notification whenever the first send returned (with an id
\* or with an error) instead of throwing.
C23_OperatorAfterReturnedSend ==
  \A r \in Creators :
    (Created(r) /\ creq[r].pc = "done") =>
      /\ Attempted(r, "customer")
      /\ Mail(r, "customer", "thrown") \notin emails => Attempted(r, "operator")

\* The first send returned an error and the notification was attempted.
C23_ReturnedErrorWitness ==
  /\ Created("r1")
  /\ creq["r1"].pc = "done"
  /\ Mail("r1", "customer", "error") \in emails
  /\ Attempted("r1", "operator")


\* ---------------------------------------------------------------- C24
C24_Step ==
  /\ \A l \in order_items' : l.quantity >= 1
  /\ \A p \in Products : stock'[p] <= stock[p]

\* C24: every stored order line has a quantity of at least one, and no step
\* of an order creation raises the stock of a product.
C24_QuantitiesPositive == [][C24_Step]_vars

\* The state the refutation leads to: an order answered with success whose
\* stored line has the quantity -1, and p1 with more stock than any product
\* started with.
C24_StockRaised ==
  \E r \in Creators :
    /\ Created(r)
    /\ \E l \in ItemsOf(r) : l.quantity < 0
    /\ stock["p1"] > MaxStock


\* ---------------------------------------------------------------- C25
ReviewStepOf(v) == vreq'[v] # vreq[v]

C25_Step ==
  /\ \A v \in Reviewers :
       \* the check finds the user's review of the product: a duplicate
       /\ (vreq[v].pc = "find_existing" /\ ReviewStepOf(v)
             /\ ReviewsOf(vreq[v].body.product_id, vreq[v].user) # {}) =>
            /\ vreq'[v].res = ReviewRes(400, "You have already reviewed this product", {})
            /\ product_reviews' = product_reviews
       \* whatever step a request takes while the pair has a review, the
       \* review stays as it is and the request is not answered with success
       /\ (ReviewStepOf(v) /\ vreq[v].pc # "idle"
             /\ ReviewsOf(vreq[v].body.product_id, vreq[v].user) # {}) =>
            /\ product_reviews' = product_reviews
            /\ vreq'[v].res.status # 201
  /\ \A x \in product_reviews : x \in product_reviews'
  /\ \A x, y \in product_reviews' :
       (x.product_id = y.product_id /\ x.user_id = y.user_id) => x = y

\* C25: a create-review request that finds a review of its user for its
\* product is refused as a duplicate and changes no review, and there is
\* never more than one review per (product, user), also after concurrent
\* requests of one user for one product.
C25_OneReviewPerUserAndProduct == [][C25_Step]_vars

\* Three requests of u1 for p1: one created the review, one passed the check
\* before the review was there and was refused by the store at its insert,
\* one found the review and was refused as a duplicate.
C25_Witness ==
  /\ \A v \in Reviewers : vreq[v].user = "u1" /\ vreq[v].body.product_id = "p1"
  /\ \E v \in Reviewers : vreq[v].res.status = 201
  /\ \E v \in Reviewers : vreq[v].res.status = 500
  /\ \E v \in Reviewers : vreq[v].res.error = "You have already reviewed this product"
  /\ Cardinality(product_reviews) = 1


\* ---------------------------------------------------------------- C26
\* A request that is working on order o: its creation before the response,
\* or a status transition between its validation and its response.
InFlight(o) ==
  \/ o \in Creators /\ creq[o].pc \notin {"idle", "off", "email_customer", "email_operator", "done"}
  \/ \E a \in Admins : areq[a].in.orderId = o /\ areq[a].pc \notin {"idle", "off", "done"}

\* C26: an order that no creation and no transition is working on has the
\* status of the most recent entry of its history.
C26_StatusIsLastEntry ==
  \A o \in DOMAIN orders :
    (~InFlight(o) /\ HistoryOf(o) # <<>>) =>
      orders[o].status = HistoryOf(o)[Len(HistoryOf(o))].status

\* The part that holds: the status of a quiet order is the status of one of
\* the entries of its history.
C26_StatusIsSomeEntry ==
  \A o \in DOMAIN orders :
    (~InFlight(o) /\ HistoryOf(o) # <<>>) =>
      \E i \in 1..Len(HistoryOf(o)) : orders[o].status = HistoryOf(o)[i].status


\* The state two administrators lead to on an order whose creation was over
\* before either began: a1's update, a2's update, a2's entry, a1's entry.
\* The order carries a2's status and the last entry carries a1's.
C26_CrossedTransitions ==
  /\ Exists("r1")
  /\ ~InFlight("r1")
  /\ Len(HistoryOf("r1")) = 3
  /\ HistoryOf("r1")[1].updated_by = Null
  /\ HistoryOf("r1")[2].updated_by = adminId["a2"]
  /\ HistoryOf("r1")[3].updated_by = adminId["a1"]
  /\ orders["r1"].status = areq["a2"].in.status
  /\ orders["r1"].status # HistoryOf("r1")[3].status


\* ---------------------------------------------------------------- C27
\* Another transition of the same order that has written its status.
Overwrote(a, b) ==
  /\ b # a
  /\ areq'[b].in.orderId = areq[a].in.orderId
  /\ areq'[b].pc \in {"history", "email", "done"}
  /\ areq'[b].updatedOrder # {}

C27_Step ==
  \A a \in Admins :
    EmitOf(a) =>
      LET o == areq[a].in.orderId
      IN  /\ broadcasts' = Append(broadcasts, LastEvent)
          /\ LastEvent.orderId = o /\ LastEvent.status = areq[a].in.status
          /\ o \in DOMAIN orders'
          /\ \/ orders'[o].status = areq[a].in.status
             \/ \E b \in Admins : Overwrote(a, b) /\ orders'[o].status = areq'[b].in.status
          /\ \E i \in 1..Len(history') :
               /\ history'[i].order_id = o
               /\ history'[i].status = areq[a].in.status
               /\ history'[i].updated_by = adminId[a]

\* C27: when a transition emits its event (and then answers with success),
\* the order row carries the status of the event, or that of a transition
\* that wrote after it, and the history holds an entry with that status
\* written by the request.
C27_BroadcastIsCommitted == [][C27_Step]_vars

\* The part that holds: there are exactly as many events as there are
\* requests whose update of the order row returned the row, so a request
\* whose update failed has emitted nothing.
C27_NoEventWithoutUpdate ==
  /\ Len(broadcasts) = Cardinality(Emitters)
  /\ \A a \in Emitters : areq[a].updatedOrder # {}
  /\ \A a \in Admins : areq[a].res.status = 500 => a \notin Emitters

\* A transition was answered 500 because its order was gone at the update,
\* and nothing was broadcast.
C27_FailedUpdateWitness ==
  /\ areq["a1"].res.status = 500
  /\ areq["a2"].pc = "idle"
  /\ broadcasts = <<>>


\* ---------------------------------------------------------------- C28
\* Tracker t makes, in this step, the lookup of the link of r's mail.
FollowedLink(t, r) ==
  /\ treq[t].pc = "idle" /\ treq'[t].pc = "done"
  /\ Created(r)
  /\ Mail(r, "customer", "sent") \in emails
  /\ treq'[t].orderNumber = trackUrl(r).orderNumber
  /\ treq'[t].email = decodeURIComponent(trackUrl(r).email)

C28_Step ==
  \A t \in Trackers, r \in Creators :
    FollowedLink(t, r) =>
      /\ treq'[t].res.status = 200
      /\ treq'[t].res.order = {orders[r]}

\* C28: the lookup with the order number and the e-mail of the link of a
\* created order's confirmation mail returns the order.
C28_MailLinkIsAccepted == [][C28_Step]_vars

SameMailbox(r) ==
  toLowerCase(customerEmail(r)) = toLowerCase(userEmail[authUser[r]])

C28_OwnStep ==
  \A t \in Trackers, r \in Creators :
    FollowedLink(t, r) =>
      IF SameMailbox(r)
        THEN treq'[t].res.status = 200 /\ treq'[t].res.order = {orders[r]}
        ELSE treq'[t].res = ErrorRes(403, "Invalid email for this order")

\* The part that holds: the link is accepted when the e-mail it embeds is
\* the account's e-mail up to case, and answered 403 otherwise.
C28_LinkOfOwnMailboxIsAccepted == [][C28_OwnStep]_vars

\* The link of a mail whose order had the account's e-mail in capitals as
\* its shipping e-mail was followed and returned the order.
C28_OwnWitness ==
  /\ Created("r1")
  /\ creq["r1"].body.email = "ANN@SHOP.IO"
  /\ treq["t1"].email = "ANN@SHOP.IO"
  /\ treq["t1"].res.status = 200


\* ---------------------------------------------------------------- C29
\* The tables as far as they belong to the user: the user's orders, and the
\* lines and history entries of those orders.
Owned(userId) == {o \in DOMAIN orders : orders[o].user_id = userId}
OwnOrders(userId) == [o \in Owned(userId) |-> orders[o]]
OwnItems(userId) == {l \in order_items : l.order_id \in Owned(userId)}
OwnHistory(userId) == SelectSeq(history, LAMBDA h : h.order_id \in Owned(userId))

ReadNow(g) == oreq[g].pc = "idle" /\ oreq'[g].pc = "done"

C29_Step ==
  \A g \in Readers :
    ReadNow(g) =>
      LET userId == oreq'[g].user
          res == oreq'[g].res
      IN  \* every order of the answer is owned by the user
          /\ \A i \in 1..Len(res.orders) : res.orders[i].order.user_id = userId
          \* the answer is the one computed from the user's own rows alone
          /\ oreq'[g].route = "my-orders" =>
               res = myOrders(OwnOrders(userId), OwnItems(userId), OwnHistory(userId), userId)
          /\ oreq'[g].route = "order" =>
               /\ res = orderById(OwnOrders(userId), OwnItems(userId), OwnHistory(userId),
                                  userId, oreq'[g].orderId)
               /\ (Exists(oreq'[g].orderId) /\ orders[oreq'[g].orderId].user_id # userId) =>
                    res = ReadRes(404, "Order not found", <<>>)

\* C29: the list of a user's orders and the order by id return only orders
\* the user owns, an order of another user is answered not-found, and the
\* answer is what the same query returns on the user's own rows alone.
C29_OnlyOwnOrders == [][C29_Step]_vars

\* u1 listed the orders and got the one order u1 owns, and asked for the
\* order of u2, shipped meanwhile, and got not-found.
C29_Witness ==
  /\ oreq["g1"].user = "u1" /\ oreq["g2"].user = "u1"
  /\ Len(oreq["g1"].res.orders) = 1
  /\ oreq["g2"].orderId = "r2"
  /\ oreq["g2"].res.status = 404
  /\ Exists("r2") /\ orders["r2"].status = "shipped"


\* ---------------------------------------------------------------- C30
AnswerCodes == {200, 201, 400, 404, 500}

\* The answer of a request is written once, it is one of the answers of the
\* handlers, and a handler that has ended has answered.
AnsweredOnce(before, after) ==
  /\ before.res.status # 0 => after.res = before.res
  /\ after.res.status # 0 => after.res.status \in AnswerCodes
  /\ after.pc = "done" => after.res.status # 0

C30_Step ==
  /\ \A r \in Creators : AnsweredOnce(creq[r], creq'[r])
  /\ \A a \in Admins : AnsweredOnce(areq[a], areq'[a])

Started(req) == req.pc \notin {"idle", "off"}

\* C30: every order creation and every status transition that has begun is
\* answered, and answered once: no step changes an answer that was given,
\* and no handler ends without one, whatever call of the store or send of a
\* mail fails.
C30_ExactlyOneResponse ==
  /\ [][C30_Step]_vars
  /\ \A r \in Creators : Started(creq[r]) ~> (creq[r].res.status # 0 /\ creq[r].pc = "done")
  /\ \A a \in Admins : Started(areq[a]) ~> (areq[a].res.status # 0 /\ areq[a].pc = "done")

\* The creation was answered 500 after the store refused its lines and then
\* failed the compensating delete as well, and the transition of the order
\* that was left behind was answered 200 although its mail threw.
C30_Witness ==
  /\ creq["r1"].pc = "done" /\ creq["r1"].res.status = 500
  /\ Exists("r1") /\ ItemsOf("r1") = {}
  /\ areq["a1"].pc = "done" /\ areq["a1"].res.status = 200
  /\ Mail("a1", "status", "thrown") \in emails

====
